---- MODULE Spec2Model ----
(***************************************************************************)
(* Model of the MongoDB query-string executor                              *)
(* (src/Query_executor/mongo_exe.py): the call-chain tokenizer, the text   *)
(* repair normalizer, the structured-data decoder, the operation executor  *)
(* and execute_query around them.                                          *)
(*                                                                         *)
(* Text is a sequence of one-character strings, so that the regular        *)
(* expressions of the source are modelled by what they match, character by *)
(* character.                                                              *)
(***************************************************************************)
EXTENDS Integers, Sequences, FiniteSets, TLC

(***************************************************************************)
(* Characters and text helpers.                                            *)
(***************************************************************************)
Lower == {"a","b","c","d","e","f","g","h","i","j","k","l","m",
          "n","o","p","q","r","s","t","u","v","w","x","y","z"}

Upper == {"A","B","C","D","E","F","G","H","I","J","K","L","M",
          "N","O","P","Q","R","S","T","U","V","W","X","Y","Z"}

Digit == {"0","1","2","3","4","5","6","7","8","9"}

\* U+00B2, superscript two: a character of a single code point that is a digit
\* for str.isdigit() and no decimal digit for int()
SuperscriptTwo == "sup2"

\* \w of the patterns (ASCII part)
WordChar == Lower \cup Upper \cup Digit \cup {"_"}

\* [a-zA-Z_$] and [a-zA-Z0-9_$] of the key and array-element patterns
IdentStart == Lower \cup Upper \cup {"_", "$"}

IdentChar == IdentStart \cup Digit

\* [a-f0-9] of the ObjectId pattern
HexChar == Digit \cup {"a","b","c","d","e","f"}

\* what str.strip() removes and what \s matches
Space == {" ", "\t", "\n", "\r"}

Newline == "\n"

Min(S) == CHOOSE x \in S : \A y \in S : x <= y

Max(S) == CHOOSE x \in S : \A y \in S : x >= y

\* s[i..] and s[i..j] (empty when out of range)
From(s, i) == SubSeq(s, i, Len(s))

Slice(s, i, j) == SubSeq(s, i, j)

\* does text p occur in s at position i
HasAt(s, i, p) == /\ i >= 1
                  /\ i + Len(p) - 1 <= Len(s)
                  /\ SubSeq(s, i, i + Len(p) - 1) = p

\* the first position >= i whose character is not in Cls (Len(s)+1 if none):
\* where a greedy run of Cls characters starting at i ends
RunEnd(s, i, Cls) == Min({j \in i..(Len(s) + 1) : j = Len(s) + 1 \/ s[j] \notin Cls})

\* the first position >= i holding character c, or 0
IndexOf(s, i, c) == LET hits == {j \in i..Len(s) : s[j] = c}
                    IN IF hits = {} THEN 0 ELSE Min(hits)

\* where the line holding position i ends: the first line break at or after
\* i, or Len(s)+1 ("." of a pattern matches every character but a line break)
LineEnd(s, i) == LET n == IndexOf(s, i, Newline)
                 IN IF n = 0 THEN Len(s) + 1 ELSE n

\* str.strip()
Strip(s) == LET keep == {i \in DOMAIN s : s[i] \notin Space}
            IN IF keep = {} THEN <<>> ELSE SubSeq(s, Min(keep), Max(keep))

\* str.lower() on the ASCII letters
LowerOf(c) == CASE c = "A" -> "a" [] c = "B" -> "b" [] c = "C" -> "c" [] c = "D" -> "d"
                [] c = "E" -> "e" [] c = "F" -> "f" [] c = "G" -> "g" [] c = "H" -> "h"
                [] c = "I" -> "i" [] c = "J" -> "j" [] c = "K" -> "k" [] c = "L" -> "l"
                [] c = "M" -> "m" [] c = "N" -> "n" [] c = "O" -> "o" [] c = "P" -> "p"
                [] c = "Q" -> "q" [] c = "R" -> "r" [] c = "S" -> "s" [] c = "T" -> "t"
                [] c = "U" -> "u" [] c = "V" -> "v" [] c = "W" -> "w" [] c = "X" -> "x"
                [] c = "Y" -> "y" [] c = "Z" -> "z" [] OTHER -> c

ToLower(s) == [i \in DOMAIN s |-> LowerOf(s[i])]

(***************************************************************************)
(* Call-chain tokenizer: _parse_query_string.                              *)
(***************************************************************************)
\* (\w+)\((.*?)\)(.*) matched at position i of s: the method name is the
\* greedy word run ending before position e, the argument text runs to the
\* first ")" and, "." not matching a line break, must hold none; the rest
\* runs to the next line break.
NoCall == [ok |-> FALSE, method |-> <<>>, args |-> <<>>, remaining |-> <<>>]

MatchArgs(s, i, e, close) ==
    IF close > 0 /\ \A j \in (e + 1)..(close - 1) : s[j] # Newline
    THEN [ok |-> TRUE, method |-> Slice(s, i, e - 1),
          args |-> Slice(s, e + 1, close - 1),
          remaining |-> Slice(s, close + 1, LineEnd(s, close + 1) - 1)]
    ELSE NoCall

MatchName(s, i, e) ==
    IF e > i /\ e <= Len(s) /\ s[e] = "("
    THEN MatchArgs(s, i, e, IndexOf(s, e + 1, ")"))
    ELSE NoCall

MatchCall(s, i) == MatchName(s, i, RunEnd(s, i, WordChar))

\* the first position of s that holds no white space (s is not blank)
SkipSpace(s) == Min({i \in DOMAIN s : s[i] \notin Space})

\* the loop of lines 72-81: re-match \.(\w+)\((.*?)\)(.*) on what remains
RECURSIVE ParseRemaining(_, _), ParseNext(_, _)
\* a variant whose pattern skips white space before the dot
ParseRemainingSkipSpace(remaining, operations) ==
    IF Strip(remaining) = <<>> \/ remaining[SkipSpace(remaining)] # "."
    THEN operations
    ELSE ParseNext(MatchCall(remaining, SkipSpace(remaining) + 1), operations)

ParseRemaining(remaining, operations) ==
    IF Strip(remaining) = <<>> \/ remaining[1] # "."
    THEN operations
    ELSE ParseNext(MatchCall(remaining, 2), operations)

ParseNext(next_match, operations) ==
    IF ~next_match.ok
    THEN operations
    ELSE ParseRemaining(next_match.remaining,
                        Append(operations, [method |-> next_match.method,
                                            args |-> next_match.args]))

\* what is left of the text when the loop of lines 72-81 ends
RECURSIVE Unparsed(_), UnparsedNext(_, _)
Unparsed(remaining) ==
    IF Strip(remaining) = <<>> \/ remaining[1] # "."
    THEN remaining
    ELSE UnparsedNext(MatchCall(remaining, 2), remaining)

UnparsedNext(next_match, remaining) ==
    IF ~next_match.ok THEN remaining ELSE Unparsed(next_match.remaining)

\* the head pattern db\.(\w+)\.(\w+)\((.*?)\)(.*) of line 59, with "db."
\* at position k of q
NoHead == [ok |-> FALSE, collection |-> <<>>, first |-> NoCall]

HeadCall(q, k, e, first) ==
    IF first.ok
    THEN [ok |-> TRUE, collection |-> Slice(q, k + 3, e - 1), first |-> first]
    ELSE NoHead

HeadCollection(q, k, e) ==
    IF e > k + 3 /\ e <= Len(q) /\ q[e] = "."
    THEN HeadCall(q, k, e, MatchCall(q, e + 1))
    ELSE NoHead

MatchHeadAt(q, k) ==
    IF HasAt(q, k, <<"d", "b", ".">>)
    THEN HeadCollection(q, k, RunEnd(q, k + 3, WordChar))
    ELSE NoHead

\* re.search in place of re.match: the pattern found anywhere in the text
MatchHeadSearch(q) ==
    LET hits == {k \in DOMAIN q : HasAt(q, k, <<"d", "b", ".">>)}
    IN IF hits = {} THEN NoHead ELSE MatchHeadAt(q, Min(hits))

\* re.match: the pattern at the start of the text
MatchHead(q) == MatchHeadAt(q, 1)

Parsed(match) ==
    IF ~match.ok
    THEN [ok |-> FALSE, collection |-> <<>>, operations |-> <<>>]
    ELSE [ok |-> TRUE, collection |-> match.collection,
          operations |-> ParseRemaining(match.first.remaining,
                            <<[method |-> match.first.method, args |-> match.first.args]>>)]

parse_query_string(query) == Parsed(MatchHead(Strip(query)))

(***************************************************************************)
(* Structured-data decoder: json.loads, on the ASCII subset without        *)
(* backslash escapes, fractions and exponents.  A value is a record         *)
(* [t, v]: t is its kind and v its content; a mapping is the sequence of    *)
(* its [k, v] members in insertion order.                                   *)
(***************************************************************************)
Quote == "\""

JNull == [t |-> "null", v |-> 0]

JBool(b) == [t |-> "bool", v |-> b]

JInt(n) == [t |-> "int", v |-> n]

JStr(s) == [t |-> "str", v |-> s]

JArr(items) == [t |-> "arr", v |-> items]

JObj(members) == [t |-> "obj", v |-> members]

EmptyObj == JObj(<<>>)

Fail == [ok |-> FALSE, val |-> JNull, next |-> 0]

DigitVal(c) == CASE c = "0" -> 0 [] c = "1" -> 1 [] c = "2" -> 2 [] c = "3" -> 3
                 [] c = "4" -> 4 [] c = "5" -> 5 [] c = "6" -> 6 [] c = "7" -> 7
                 [] c = "8" -> 8 [] c = "9" -> 9

\* the integer a run of digits denotes
RECURSIVE ToInt(_)
ToInt(ds) == IF ds = <<>> THEN 0
             ELSE 10 * ToInt(SubSeq(ds, 1, Len(ds) - 1)) + DigitVal(ds[Len(ds)])

SkipWs(s, i) == RunEnd(s, i, Space)

\* dict[k] = v: a repeated key keeps its place and takes the last value
PutMember(members, k, v) ==
    IF \E n \in DOMAIN members : members[n].k = k
    THEN [n \in DOMAIN members |-> IF members[n].k = k THEN [k |-> k, v |-> v] ELSE members[n]]
    ELSE Append(members, [k |-> k, v |-> v])

\* a string literal opening at i: it runs to the next double quote and
\* holds no control character
StringTo(s, i, close) ==
    IF close > 0 /\ \A j \in (i + 1)..(close - 1) : s[j] \notin {"\n", "\t", "\r"}
    THEN [ok |-> TRUE, val |-> JStr(Slice(s, i + 1, close - 1)), next |-> close + 1]
    ELSE Fail

ParseString(s, i) == StringTo(s, i, IndexOf(s, i + 1, Quote))

\* -?(0|[1-9]\d*): the digits are s[d..e-1]
NumberTo(s, i, d, e) ==
    IF e > d
    THEN [ok |-> TRUE, next |-> e,
          val |-> JInt(IF d > i THEN 0 - ToInt(Slice(s, d, e - 1)) ELSE ToInt(Slice(s, d, e - 1)))]
    ELSE Fail

NumberFrom(s, i, d) ==
    NumberTo(s, i, d, IF d <= Len(s) /\ s[d] = "0" THEN d + 1 ELSE RunEnd(s, d, Digit))

ParseNumber(s, i) == NumberFrom(s, i, IF s[i] = "-" THEN i + 1 ELSE i)

RECURSIVE ParseValue(_, _), ParseElems(_, _, _), ElemValue(_, _, _), ElemSep(_, _, _),
          ParseMembers(_, _, _), MemberKey(_, _, _), MemberColon(_, _, _, _),
          MemberValue(_, _, _, _), MemberSep(_, _, _)
ParseValue(s, i) ==
    IF i > Len(s) THEN Fail
    ELSE IF s[i] = Quote THEN ParseString(s, i)
    ELSE IF s[i] = "{" THEN ParseMembers(s, SkipWs(s, i + 1), <<>>)
    ELSE IF s[i] = "[" THEN ParseElems(s, SkipWs(s, i + 1), <<>>)
    ELSE IF HasAt(s, i, <<"n", "u", "l", "l">>) THEN [ok |-> TRUE, val |-> JNull, next |-> i + 4]
    ELSE IF HasAt(s, i, <<"t", "r", "u", "e">>) THEN [ok |-> TRUE, val |-> JBool(TRUE), next |-> i + 4]
    ELSE IF HasAt(s, i, <<"f", "a", "l", "s", "e">>) THEN [ok |-> TRUE, val |-> JBool(FALSE), next |-> i + 5]
    ELSE IF s[i] = "-" \/ s[i] \in Digit THEN ParseNumber(s, i)
    ELSE Fail

\* an array from position i on, after "[" and white space, items being the
\* elements read so far: "]" at once closes the empty array only
ParseElems(s, i, items) ==
    IF items = <<>> /\ i <= Len(s) /\ s[i] = "]"
    THEN [ok |-> TRUE, val |-> JArr(<<>>), next |-> i + 1]
    ELSE ElemValue(s, items, ParseValue(s, i))

ElemValue(s, items, r) ==
    IF r.ok THEN ElemSep(s, Append(items, r.val), SkipWs(s, r.next)) ELSE Fail

ElemSep(s, items, j) ==
    IF j > Len(s) THEN Fail
    ELSE IF s[j] = "]" THEN [ok |-> TRUE, val |-> JArr(items), next |-> j + 1]
    ELSE IF s[j] = "," THEN ParseElems(s, SkipWs(s, j + 1), items)
    ELSE Fail

\* a mapping from position i on, after "{" and white space, members being
\* those read so far: "}" at once closes the empty mapping only, and a
\* member opens with a double-quoted key
ParseMembers(s, i, members) ==
    IF members = <<>> /\ i <= Len(s) /\ s[i] = "}"
    THEN [ok |-> TRUE, val |-> EmptyObj, next |-> i + 1]
    ELSE IF i <= Len(s) /\ s[i] = Quote
         THEN MemberKey(s, members, ParseString(s, i))
         ELSE Fail

MemberKey(s, members, key) ==
    IF key.ok THEN MemberColon(s, members, key.val.v, SkipWs(s, key.next)) ELSE Fail

MemberColon(s, members, k, c) ==
    IF c <= Len(s) /\ s[c] = ":"
    THEN MemberValue(s, members, k, ParseValue(s, SkipWs(s, c + 1)))
    ELSE Fail

MemberValue(s, members, k, r) ==
    IF r.ok THEN MemberSep(s, PutMember(members, k, r.val), SkipWs(s, r.next)) ELSE Fail

MemberSep(s, members, j) ==
    IF j > Len(s) THEN Fail
    ELSE IF s[j] = "}" THEN [ok |-> TRUE, val |-> JObj(members), next |-> j + 1]
    ELSE IF s[j] = "," THEN ParseMembers(s, SkipWs(s, j + 1), members)
    ELSE Fail

\* json.loads: one value, white space around it and nothing else
WholeText(s, r) ==
    IF r.ok /\ SkipWs(s, r.next) = Len(s) + 1
    THEN [ok |-> TRUE, val |-> r.val]
    ELSE [ok |-> FALSE, val |-> JNull]

json_loads(s) == WholeText(s, ParseValue(s, SkipWs(s, 1)))

(***************************************************************************)
(* Text repair normalizer: _fix_mongo_json.  re.sub rewrites the leftmost  *)
(* non-overlapping matches in one pass from left to right.                 *)
(***************************************************************************)
NoMatch == [ok |-> FALSE, out |-> <<>>, next |-> 0]

\* Step 1: json_string.replace("'", '"')
ReplaceQuotes(s) == [i \in DOMAIN s |-> IF s[i] = "'" THEN Quote ELSE s[i]]

\* Step 2: ([{,]\s*)([a-zA-Z_$][a-zA-Z0-9_$]*)(\s*:)  ->  \1"\2"\3
MatchKey(s, i) ==
    LET a == RunEnd(s, i + 1, Space)
        b == RunEnd(s, a, IdentChar)
        c == RunEnd(s, b, Space)
    IN IF /\ s[i] \in {"{", ","}
          /\ a <= Len(s) /\ s[a] \in IdentStart
          /\ c <= Len(s) /\ s[c] = ":"
       THEN [ok |-> TRUE, next |-> c + 1,
             out |-> Slice(s, i, a - 1) \o <<Quote>> \o Slice(s, a, b - 1) \o <<Quote>> \o Slice(s, b, c)]
       ELSE NoMatch

\* Step 3: ObjectId\("([a-f0-9]{24})"\)  ->  {"$oid": "\1"}
OidLen == 24

MatchObjectId(s, i) ==
    LET h == i + Len(<<"O", "b", "j", "e", "c", "t", "I", "d", "(", "\"">>)
    IN IF /\ HasAt(s, i, <<"O", "b", "j", "e", "c", "t", "I", "d", "(", "\"">>)
          /\ h + OidLen - 1 <= Len(s)
          /\ \A j \in h..(h + OidLen - 1) : s[j] \in HexChar
          /\ HasAt(s, h + OidLen, <<"\"", ")">>)
       THEN [ok |-> TRUE, next |-> h + OidLen + 2,
             out |-> <<"{", "\"", "$", "o", "i", "d", "\"", ":", " ", "\"">> \o Slice(s, h, h + OidLen - 1) \o <<"\"", "}">>]
       ELSE NoMatch

\* Step 4: ISODate\("([^"]+)"\)  ->  {"$date": "\1"}
MatchISODate(s, i) ==
    LET h     == i + Len(<<"I", "S", "O", "D", "a", "t", "e", "(", "\"">>)
        close == IF HasAt(s, i, <<"I", "S", "O", "D", "a", "t", "e", "(", "\"">>) THEN IndexOf(s, h, Quote) ELSE 0
    IN IF close > h /\ HasAt(s, close, <<"\"", ")">>)
       THEN [ok |-> TRUE, next |-> close + 2,
             out |-> <<"{", "\"", "$", "d", "a", "t", "e", "\"", ":", " ", "\"">> \o Slice(s, h, close - 1) \o <<"\"", "}">>]
       ELSE NoMatch

\* Step 5: ([\[,])\s*([a-zA-Z_$][a-zA-Z0-9_$]*)\s*([,\]])  ->  \1"\2"\3
MatchElement(s, i) ==
    LET a == RunEnd(s, i + 1, Space)
        b == RunEnd(s, a, IdentChar)
        c == RunEnd(s, b, Space)
    IN IF /\ s[i] \in {"[", ","}
          /\ a <= Len(s) /\ s[a] \in IdentStart
          /\ c <= Len(s) /\ s[c] \in {",", "]"}
       THEN [ok |-> TRUE, next |-> c + 1,
             out |-> <<s[i], Quote>> \o Slice(s, a, b - 1) \o <<Quote, s[c]>>]
       ELSE NoMatch

\* the pattern of one re.sub step, tried at position i of s
MatchRule(rule, s, i) ==
    CASE rule = "key" -> MatchKey(s, i)
      [] rule = "ObjectId" -> MatchObjectId(s, i)
      [] rule = "ISODate" -> MatchISODate(s, i)
      [] rule = "element" -> MatchElement(s, i)

\* re.sub: a match is replaced and the scan goes on behind it, any other
\* character is copied
RECURSIVE ReSub(_, _, _)
ReSub(rule, s, i) ==
    IF i > Len(s) THEN <<>>
    ELSE LET m == MatchRule(rule, s, i)
         IN IF m.ok THEN m.out \o ReSub(rule, s, m.next)
            ELSE <<s[i]>> \o ReSub(rule, s, i + 1)

fix_mongo_json(json_string) ==
    IF Strip(json_string) = <<>>
    THEN <<"{", "}">>
    ELSE LET step1 == ReplaceQuotes(json_string)
             step2 == ReSub("key", step1, 1)
             step3 == ReSub("ObjectId", step2, 1)
             step4 == ReSub("ISODate", step3, 1)
         IN ReSub("element", step4, 1)

(***************************************************************************)
(* _process_query_content: strict decode first, repair and one retry on    *)
(* failure.  Besides the value, the result tells how many strict decodes   *)
(* and how many repairs the call made.                                     *)
(***************************************************************************)
\* str(e) of the JSONDecodeError json.loads raises on a text: the message and
\* the position in it are a function of the text decoded
DecodeError(doc) == [doc |-> doc]

\* lines 101-103: the error of the retry becomes the ValueError
InvalidContent(e) == [ok |-> FALSE, val |-> JNull, decodes |-> 2, repairs |-> 1, err |-> e]

\* lines 97-103: the retry on the repaired text
Retried(fixed_content, retry) ==
    IF retry.ok
    THEN [ok |-> TRUE, val |-> retry.val, decodes |-> 2, repairs |-> 1, err |-> <<>>]
    ELSE InvalidContent(DecodeError(fixed_content))

\* lines 98-99
Repaired(fixed_content) == Retried(fixed_content, json_loads(fixed_content))

\* a variant that repairs the text whether or not it decodes as given
DecodedRepairFirst(content, direct) == Repaired(fix_mongo_json(content))

\* lines 93-96: the strict decode of the text as given
Decoded(content, direct) ==
    IF direct.ok
    THEN [ok |-> TRUE, val |-> direct.val, decodes |-> 1, repairs |-> 0, err |-> <<>>]
    ELSE Repaired(fix_mongo_json(content))

process_query_content(content) ==
    IF content = <<>> \/ Strip(content) = <<>>
    THEN [ok |-> TRUE, val |-> EmptyObj, decodes |-> 0, repairs |-> 0, err |-> <<>>]
    ELSE Decoded(content, json_loads(content))

(***************************************************************************)
(* Operation executor: _execute_operations.                                *)
(***************************************************************************)
m_find == <<"f", "i", "n", "d">>

m_aggregate == <<"a", "g", "g", "r", "e", "g", "a", "t", "e">>

m_count == <<"c", "o", "u", "n", "t">>

m_distinct == <<"d", "i", "s", "t", "i", "n", "c", "t">>

m_limit == <<"l", "i", "m", "i", "t">>

m_skip == <<"s", "k", "i", "p">>

m_sort == <<"s", "o", "r", "t">>

\* Python's None (json's null decodes to it)
None == JNull

\* a cursor of the collection handle: how it was opened and what was applied
\* to it since, in order
Cursor(steps) == [t |-> "cursor", v |-> steps]

\* the truth value Python's `if x` gives a value; a cursor object is true
Truthy(x) == CASE x.t = "null" -> FALSE
               [] x.t = "bool" -> x.v
               [] x.t = "int"  -> x.v # 0
               [] x.t \in {"str", "arr", "obj"} -> x.v # <<>>
               [] OTHER -> TRUE

\* str.isdigit(): every character is a digit character, and there is one
IsDigit(s) == s # <<>> /\ \A i \in DOMAIN s : s[i] \in Digit \cup {SuperscriptTwo}

\* the texts int() reads as a number once white space is trimmed, among
\* those str.isdigit() accepts: runs of decimal digits
IsDecimal(s) == s # <<>> /\ \A i \in DOMAIN s : s[i] \in Digit

\* str(e) of the ValueError int() raises on a text
InvalidLiteral(args) == [literal |-> args]

\* line 155: int(args)
IntOf(args) ==
    IF IsDecimal(Strip(args))
    THEN [ok |-> TRUE, decodes |-> 0, repairs |-> 0, val |-> JInt(ToInt(Strip(args))),
          err |-> <<>>]
    ELSE [ok |-> FALSE, decodes |-> 0, repairs |-> 0, val |-> JNull,
          err |-> InvalidLiteral(args)]

\* lines 156-157, and line 155 when the text is no run of digits
RawArgs(args) == [ok |-> TRUE, decodes |-> 0, repairs |-> 0, val |-> JStr(args), err |-> <<>>]

\* lines 152-157: how the raw argument text of a method is interpreted
ProcessArgs(method, args) ==
    IF method \in {m_find, m_aggregate, m_count, m_distinct}
    THEN process_query_content(args)
    ELSE IF method \in {m_limit, m_skip}
         THEN IF IsDigit(Strip(args)) THEN IntOf(args) ELSE RawArgs(args)
         ELSE RawArgs(args)

\* lines 162-180: the branch of the if/elif chain an operation takes
BranchSortAny(method, cursor) ==
    IF method \in {m_find, m_aggregate, m_count, m_distinct} THEN method
    ELSE IF method = m_limit /\ Truthy(cursor) THEN m_limit
    ELSE IF method = m_skip /\ Truthy(cursor) THEN m_skip
    ELSE IF Truthy(cursor) THEN m_sort
    ELSE <<"u", "n", "s", "u", "p", "p", "o", "r", "t", "e", "d">>

Branch(method, cursor) ==
    IF method \in {m_find, m_aggregate, m_count, m_distinct} THEN method
    ELSE IF method = m_limit /\ Truthy(cursor) THEN m_limit
    ELSE IF method = m_skip /\ Truthy(cursor) THEN m_skip
    ELSE IF method = m_sort /\ Truthy(cursor) THEN m_sort
    ELSE <<"u", "n", "s", "u", "p", "p", "o", "r", "t", "e", "d">>

\* lines 168-172: the branches that return out of the loop
TerminalDistinctOnly(branch) == branch = m_distinct

Terminal(branch) == branch \in {m_count, m_distinct}

(***************************************************************************)
(* Result sanitizer: convert_objectid.  Besides the decoder's kinds a      *)
(* stored document holds identifiers ("oid", v its 12 bytes), timestamps   *)
(* ("datetime", v its date, time, microsecond and offset parts) and        *)
(* scalars of other store types ("other").                                 *)
(***************************************************************************)
HexDigits == <<"0", "1", "2", "3", "4", "5", "6", "7", "8", "9", "a", "b", "c", "d", "e", "f">>

\* str(ObjectId): two lower-case hexadecimal digits for each byte
RECURSIVE HexOf(_)
HexOf(bytes) ==
    IF bytes = <<>> THEN <<>>
    ELSE <<HexDigits[(Head(bytes) \div 16) + 1], HexDigits[(Head(bytes) % 16) + 1]>>
         \o HexOf(Tail(bytes))

\* datetime.isoformat(sep): date, sep, time, the microseconds when there
\* are any, the offset when the value carries one
IsoFormat(d, sep) ==
    d.date \o sep \o d.time \o (IF d.micro = <<>> THEN <<>> ELSE <<".">> \o d.micro) \o d.offset

\* str(datetime) is isoformat(sep=' ')
StrOfDatetime(d) == IsoFormat(d, <<" ">>)

\* a variant that walks mappings only
RECURSIVE ConvertMappingsOnly(_)
ConvertMappingsOnly(doc) ==
    CASE doc.t = "obj" -> JObj([i \in DOMAIN doc.v |->
                                   [k |-> doc.v[i].k, v |-> ConvertMappingsOnly(doc.v[i].v)]])
      [] doc.t = "oid" -> JStr(HexOf(doc.v))
      [] doc.t = "datetime" -> JStr(StrOfDatetime(doc.v))
      [] OTHER -> doc

RECURSIVE convert_objectid(_)
convert_objectid(doc) ==
    CASE doc.t = "arr" -> JArr([i \in DOMAIN doc.v |-> convert_objectid(doc.v[i])])
      [] doc.t = "obj" -> JObj([i \in DOMAIN doc.v |->
                                   [k |-> doc.v[i].k, v |-> convert_objectid(doc.v[i].v)]])
      [] doc.t = "oid" -> JStr(HexOf(doc.v))
      [] doc.t = "datetime" -> JStr(StrOfDatetime(doc.v))
      [] OTHER -> doc

\* whether json.dump can serialize the value
RECURSIVE Serializable(_)
Serializable(doc) ==
    CASE doc.t = "arr" -> \A i \in DOMAIN doc.v : Serializable(doc.v[i])
      [] doc.t = "obj" -> \A i \in DOMAIN doc.v : Serializable(doc.v[i].v)
      [] doc.t \in {"null", "bool", "int", "str"} -> TRUE
      [] OTHER -> FALSE

(***************************************************************************)
(* Inputs of the model.                                                    *)
(***************************************************************************)
\* the longest call chain drawn
MaxOps == 3

\* the deepest value tree drawn for the normalizer
MaxDepth == 2

Call(m, a) == [method |-> m, args |-> a]

\* the calls the chains are built from
Calls == { Call(m_find, <<"{", "}">>),
           Call(m_find, <<"{", "s", "t", "a", "t", "u", "s", ":", "'", "o", "p", "e", "n", "'", "}">>),
           Call(m_count, <<"{", "s", "t", "a", "t", "u", "s", ":", "'", "o", "p", "e", "n", "'", "}">>),
           Call(m_distinct, <<"'", "s", "t", "a", "t", "u", "s", "'">>),
           Call(m_limit, <<"5">>),
           Call(m_sort, <<"{", "d", "a", "t", "e", ":", "-", "1", "}">>),
           Call(<<"u", "n", "s", "u", "p", "p", "o", "r", "t", "e", "d">>, <<"{", "}">>) }

\* chains that vary the spelling of one call
ExtraChains == { <<Call(m_aggregate, <<"[", "{", "$", "m", "a", "t", "c", "h", ":", "{", "a", ":", "1", "}", "}", "]">>)>>,
                 <<Call(m_aggregate, <<"{", "$", "m", "a", "t", "c", "h", ":", "{", "a", ":", "1", "}", "}">>)>>,
                 <<Call(m_find, <<"{", "}">>), Call(m_skip, <<"2">>)>>,
                 <<Call(m_find, <<"{", "s", "t", "a", "t", "u", "s", ":", "'", "o", "p", "e", "n", "'">>)>>,
                 <<Call(m_find, <<"{", "\n", "}">>), Call(m_limit, <<"5">>)>>,
                 <<Call(m_find, <<"{", "}">>), Call(m_limit, <<"{", "\n", "}">>)>>,
                 <<Call(<<"F", "I", "N", "D">>, <<"{", "}">>), Call(<<"L", "i", "m", "i", "t">>, <<"5">>)>>,
                 <<Call(m_find, <<"{", "}">>), Call(<<"E", "x", "p", "l", "a", "i", "n">>, <<>>)>>,
                 <<Call(m_distinct, <<"{", "}">>)>>,
                 <<Call(m_count, <<>>)>>,
                 <<Call(m_count, <<" ">>), Call(m_limit, <<"5">>)>>,
                 <<Call(m_find, <<>>)>>,
                 <<Call(m_find, <<" ">>), Call(m_limit, <<"5">>)>>,
                 <<Call(m_find, <<"{", "s", "t", "a", "t", "u", "s", ":", "'", "o", "p", "e", "n", "'", "}", ",", " ", "{", "t", "o", "t", "a", "l", ":", "1", "}">>)>>,
                 <<Call(m_distinct, <<"s", "t", "a", "t", "u", "s">>)>>,
                 <<Call(m_distinct, <<"{", "s", "t", "a", "t", "u", "s", ":", "1", "}">>), Call(m_limit, <<"5">>)>>,
                 <<Call(m_distinct, <<>>)>>,
                 <<Call(m_find, <<"{", "}">>), Call(m_find, <<"{", "s", "t", "a", "t", "u", "s", ":", "'", "o", "p", "e", "n", "'">>)>>,
                 <<Call(m_find, <<"{", "}">>), Call(m_limit, <<"5">>), Call(m_count, <<"{", "s", "t", "a", "t", "u", "s", ":", "}">>)>>,
                 <<Call(m_aggregate, <<>>)>>,
                 <<Call(m_aggregate, <<" ">>), Call(m_limit, <<"5">>)>>,
                 <<Call(m_aggregate, <<"[", "{", "$", "m", "a", "t", "c", "h", ":", "{", "a", ":", "1", "}", "}", "]">>), Call(m_skip, <<"2">>), Call(m_limit, <<"5">>)>>,
                 <<Call(m_find, <<"{", "}">>), Call(m_limit, <<" ", "5", " ">>), Call(m_skip, <<"0", "0", "7">>)>>,
                 <<Call(m_find, <<"{", "}">>), Call(m_limit, <<"a", "b", "c">>)>>,
                 <<Call(m_find, <<"{", "}">>), Call(m_limit, <<"-", "5">>)>>,
                 <<Call(m_find, <<"{", "}">>), Call(m_skip, <<>>)>>,
                 <<Call(m_find, <<"{", "}">>), Call(m_skip, <<"1", ".", "5">>)>>,
                 <<Call(m_find, <<"{", "}">>), Call(m_limit, <<SuperscriptTwo>>)>> }

Chains == (UNION {[1..n -> Calls] : n \in 1..MaxOps}) \cup ExtraChains

\* how a chain is written out: as is, with a space before each chained dot,
\* with a space before each opening parenthesis, with spaces inside the
\* parentheses, with white space around the whole text, with text after it
Styles == {"plain", "dot", "paren", "inner", "outer", "trail"}

RenderCall(op, style, first) ==
    LET pad == IF style = "inner" THEN <<" ">> ELSE <<>>
    IN (IF style = "dot" /\ ~first THEN <<" ">> ELSE <<>>) \o <<".">> \o op.method
       \o (IF style = "paren" THEN <<" ">> ELSE <<>>) \o <<"(">> \o pad \o op.args \o pad \o <<")">>

RECURSIVE RenderCalls(_, _, _)
RenderCalls(chain, style, first) ==
    IF chain = <<>> THEN <<>>
    ELSE RenderCall(Head(chain), style, first) \o RenderCalls(Tail(chain), style, FALSE)

RenderChain(collection, chain, style) ==
    LET text == <<"d", "b", ".">> \o collection \o RenderCalls(chain, style, TRUE)
    IN CASE style = "outer" -> <<" ", "\t">> \o text \o <<" ", "\n">>
         [] style = "trail" -> text \o <<" ", "a", "n", "d", " ", "m", "o", "r", "e">>
         [] OTHER -> text

\* 24-character identifiers: 23 fixed characters and a last one
Hex23 == <<"5", "0", "7", "f", "1", "f", "7", "7", "b", "c", "f", "8", "6", "c", "d", "7", "9", "9", "4", "3", "9", "0", "1">>

OidTexts == {Hex23 \o <<c>> : c \in {"0", "1", "a", "f"}}

OidQuery(h) == <<"d", "b", ".", "o", "r", "d", "e", "r", "s", ".", "f", "i", "n", "d", "(", "{", "_", "i", "d", ":", " ", "O", "b", "j", "e", "c", "t", "I", "d", "(", "\"">> \o h \o <<"\"", ")", "}", ")">>

\* texts that are no call chain
RawQueries == { <<"n", "o", "t", ".", "a", ".", "q", "u", "e", "r", "y">>, <<>>, <<" ">>, <<"d", "b">>, <<"d", "b", ".", "o", "r", "d", "e", "r", "s">>, <<"d", "b", ".", "o", "r", "d", "e", "r", "s", ".", "f", "i", "n", "d">>,
                <<"d", "b", ".", "o", "r", "d", "e", "r", "s", ".", "f", "i", "n", "d", "(">>, <<"d", "b", ".", ".", "f", "i", "n", "d", "(", ")">>, <<"x", "d", "b", ".", "o", "r", "d", "e", "r", "s", ".", "f", "i", "n", "d", "(", ")">>, <<"o", "r", "d", "e", "r", "s", ".", "f", "i", "n", "d", "(", "{", "}", ")">>,
                <<"d", "b", ".", "o", "r", "d", "e", "r", "s", ".", "f", "i", "n", "d", "{", "}">>, <<"d", "b", ".", "o", "r", "d", "e", "r", "s", " ", "f", "i", "n", "d", "(", ")">>, <<"D", "B", ".", "o", "r", "d", "e", "r", "s", ".", "f", "i", "n", "d", "(", ")">> }

Shape(kind, chain, style, h) == [kind |-> kind, collection |-> <<"o", "r", "d", "e", "r", "s">>, chain |-> chain,
                                style |-> style, h |-> h]

\* what the store may hand back
CountResults == {0, 3}

DistinctResults == {JArr(<<>>), JArr(<<JStr(<<"o", "p", "e", "n">>), JStr(<<"c", "l", "o", "s", "e", "d">>)>>)}

\* ObjectId("507f1f77bcf86cd799439011")
OidBytes == <<80, 127, 31, 119, 188, 248, 108, 215, 153, 67, 144, 17>>

AnOid == [t |-> "oid", v |-> OidBytes]

\* datetime(2024, 1, 1, 0, 0), as the store hands it out by default
ADate == [t |-> "datetime", v |-> [date |-> <<"2", "0", "2", "4", "-", "0", "1", "-", "0", "1">>, time |-> <<"0", "0", ":", "0", "0", ":", "0", "0">>,
                                   micro |-> <<>>, offset |-> <<>>]]

StoredDoc == JObj(<< [k |-> <<"_", "i", "d">>, v |-> AnOid],
                    [k |-> <<"s", "t", "a", "t", "u", "s">>, v |-> JStr(<<"o", "p", "e", "n">>)],
                    [k |-> <<"d", "a", "t", "e">>, v |-> ADate] >>)

OddDoc == JObj(<< [k |-> <<"p", "r", "i", "c", "e">>, v |-> [t |-> "other", v |-> <<"9", ".", "9", "9">>]] >>)

StoreResults == {JArr(<<>>), JArr(<<StoredDoc>>), JArr(<<StoredDoc, OddDoc>>)}

\* the default output location and what it held before the call
output_file == <<"o", "u", "t", "p", "u", "t", ".", "j", "s", "o", "n">>

OldFile == [state |-> "old", doc |-> None]

(***************************************************************************)
(* State.                                                                  *)
(***************************************************************************)
VARIABLES
    query,            \* the text handed to execute_query
    shape,            \* how that text was built (an input, never read by the code)
    pc,               \* where execute_query stands: parse, loop, save, done
    collection_name,  \* parsed['collection']
    operations,       \* parsed['operations']
    idx,              \* the position in operations of the next one to visit
    cursor,           \* the cursor of _execute_operations, None at first
    calls,            \* the calls made on the collection handle and its cursors
    result,           \* what _execute_operations returned
    outcome,          \* what execute_query returned
    file,             \* the content of the output file
    decodes,          \* strict decodes made so far in this call
    repairs,          \* _fix_mongo_json calls made so far in this call
    content,          \* the fragment handed to the normalizer and decoder alone
    frag,             \* how that fragment was built
    fstage,           \* input, fixed, done
    fixed,            \* _fix_mongo_json(content)
    decoded,          \* _process_query_content(content)
    cpc,              \* two concurrent calls: where each stands in lines 41-48
    cresult,          \* the result variable of each of the two calls
    coutcome,         \* what each of the two calls returned
    cfile,            \* the file at the default output location they share
    request,          \* the POST a view is handling
    response,         \* what the view answered
    invoked,          \* the components the view has used for the request
    original,         \* the value handed to convert_objectid alone
    sstage,           \* input, once, twice
    once,             \* convert_objectid(original)
    twice,            \* convert_objectid(once)
    heap,             \* the lists and dicts of tree as objects, before the call
    root,             \* tree in that heap
    heap_after,       \* the heap after convert_objectid(original)
    root_after        \* what the call returned, in heap_after

pipeline_vars == <<query, shape, pc, collection_name, operations, idx, cursor, calls,
                   result, outcome, file, decodes, repairs>>

fragment_vars == <<content, frag, fstage, fixed, decoded>>

concurrent_vars == <<cpc, cresult, coutcome, cfile>>

view_vars == <<request, response, invoked>>

sanitize_vars == <<original, sstage, once, twice, heap, root, heap_after, root_after>>

vars == <<pipeline_vars, fragment_vars, concurrent_vars, view_vars, sanitize_vars>>

NoOutcome == [status |-> "none", kind |-> "none", detail |-> <<>>, data |-> None,
              file |-> <<>>, keys |-> {}]

\* {"error": "Query execution failed: ..."} of line 52; kind and detail
\* stand for the message
ErrorOutcome(kind, detail) == [status |-> "error", kind |-> kind, detail |-> detail,
                               data |-> None, file |-> <<>>, keys |-> {"error"}]

\* {"status": "success", "data": result, "file": output_file} of line 48
SuccessOutcome(data) == [status |-> "success", kind |-> "none", detail |-> <<>>,
                         data |-> data, file |-> output_file,
                         keys |-> {"status", "data", "file"}]

\* the failures execute_query turns into an error outcome
ErrorKinds == {"MalformedQuery", "InvalidQueryContent", "UnsupportedMethod",
               "ExecutionFailed", "InvalidLiteral", "IndexError", "OpenFailed", "NotSerializable"}

NoFrag == [kind |-> "none", tree |-> None, text |-> <<>>]

NoDecoded == [ok |-> FALSE, val |-> None, decodes |-> 0, repairs |-> 0, err |-> <<>>]

PipelineIdle == /\ query = <<>>
                /\ shape = Shape("none", <<>>, "plain", <<>>)
                /\ pc = "idle"
                /\ collection_name = <<>>
                /\ operations = <<>>
                /\ idx = 1
                /\ cursor = None
                /\ calls = <<>>
                /\ result = None
                /\ outcome = NoOutcome
                /\ file = OldFile
                /\ decodes = 0
                /\ repairs = 0

Callers == {1, 2}

ConcurrentIdle == /\ cpc = [c \in Callers |-> "idle"]
                  /\ cresult = [c \in Callers |-> None]
                  /\ coutcome = [c \in Callers |-> NoOutcome]
                  /\ cfile = OldFile

NoRequest == [view |-> "none", body |-> <<>>]

NoResponse == [status |-> 0, body |-> <<>>]

ViewIdle == /\ request = NoRequest
            /\ response = NoResponse
            /\ invoked = {}

SanitizeIdle == /\ original = None
                /\ sstage = "idle"
                /\ once = None
                /\ twice = None
                /\ heap = <<>>
                /\ root = None
                /\ heap_after = <<>>
                /\ root_after = None

FragmentIdle == /\ content = <<>>
                /\ frag = NoFrag
                /\ fstage = "idle"
                /\ fixed = <<>>
                /\ decoded = NoDecoded

\* execute_query is entered with a query text
Init == /\ \/ \E chain \in Chains, style \in Styles :
                /\ shape = Shape("chain", chain, style, <<>>)
                /\ query = RenderChain(<<"o", "r", "d", "e", "r", "s">>, chain, style)
           \/ \E text \in RawQueries :
                /\ shape = Shape("raw", <<>>, "plain", <<>>)
                /\ query = text
           \/ \E h \in OidTexts :
                /\ shape = Shape("oid", <<>>, "plain", h)
                /\ query = OidQuery(h)
        /\ pc = "parse"
        /\ collection_name = <<>>
        /\ operations = <<>>
        /\ idx = 1
        /\ cursor = None
        /\ calls = <<>>
        /\ result = None
        /\ outcome = NoOutcome
        /\ file = OldFile
        /\ decodes = 0
        /\ repairs = 0
        /\ FragmentIdle
        /\ ConcurrentIdle
        /\ ViewIdle
        /\ SanitizeIdle

(***************************************************************************)
(* execute_query, step by step.                                            *)
(***************************************************************************)
\* the except clause of lines 50-52: the call ends with an error outcome
RaiseWithData(kind, detail) ==
    /\ outcome' = [ErrorOutcome(kind, detail) EXCEPT !.data = result, !.keys = {"error", "data"}]
    /\ pc' = "done"

Raise(kind, detail) == /\ outcome' = ErrorOutcome(kind, detail)
                       /\ pc' = "done"

\* a call on the collection handle or on a cursor, at the operation visited:
\* it returns ret (ok) or raises
HandleCall(op, args, ok, ret) ==
    calls' = Append(calls, [pos |-> idx, op |-> op, args |-> args, ok |-> ok,
                            ret |-> IF ok THEN ret ELSE None])

\* lines 30-38: tokenize, or fail on the head pattern
Tokenized(parsed) ==
    IF parsed.ok
    THEN /\ collection_name' = parsed.collection
         /\ operations' = parsed.operations
         /\ pc' = "loop"
         /\ UNCHANGED outcome
    ELSE /\ Raise("MalformedQuery", <<>>)
         /\ UNCHANGED <<collection_name, operations>>

ParseQuery ==
    /\ pc = "parse"
    /\ Tokenized(parse_query_string(query))
    /\ UNCHANGED <<query, shape, idx, cursor, calls, result, file, decodes, repairs>>
    /\ UNCHANGED <<fragment_vars, concurrent_vars, view_vars, sanitize_vars>>

\* the operation the loop of line 147 visits
Visiting == pc = "loop" /\ idx <= Len(operations)

method == ToLower(operations[idx].method)

processed == ProcessArgs(method, operations[idx].args)

branch == Branch(method, cursor)

\* a variant that stays at the operation it visited
VisitAgain(p) ==
            /\ idx' = idx
            /\ decodes' = decodes + p.decodes
            /\ repairs' = repairs + p.repairs
            /\ UNCHANGED <<query, shape, collection_name, operations, file>>
            /\ UNCHANGED <<fragment_vars, concurrent_vars, view_vars, sanitize_vars>>

\* what every visit of an operation does and leaves alone, p being the
\* processed arguments
Visit(p) == /\ idx' = idx + 1
            /\ decodes' = decodes + p.decodes
            /\ repairs' = repairs + p.repairs
            /\ UNCHANGED <<query, shape, collection_name, operations, file>>
            /\ UNCHANGED <<fragment_vars, concurrent_vars, view_vars, sanitize_vars>>

\* where _execute_operations goes after a branch that does not raise
AfterBranch(b) == IF Terminal(b) THEN "save" ELSE "loop"

\* lines 153, 101-103: the argument text cannot be repaired
RejectContent(p) ==
    /\ ~p.ok
    /\ Visit(p)
    /\ Raise("InvalidQueryContent", p.err)
    /\ UNCHANGED <<cursor, calls, result>>

OpInvalidContent ==
    Visiting /\ method \in {m_find, m_aggregate, m_count, m_distinct} /\ RejectContent(processed)

\* line 155: int() rejects a text str.isdigit() accepted
RejectLiteral(p) ==
    /\ ~p.ok
    /\ Visit(p)
    /\ Raise("InvalidLiteral", p.err)
    /\ UNCHANGED <<cursor, calls, result>>

OpInvalidLiteral == Visiting /\ method \in {m_limit, m_skip} /\ RejectLiteral(processed)

\* lines 162-163
Find(p) ==
    /\ p.ok
    /\ Visit(p)
    /\ \E ok \in BOOLEAN :
         LET args   == IF Truthy(p.val) THEN <<p.val>> ELSE <<>>
             opened == Cursor(<<[op |-> m_find, args |-> args]>>)
         IN /\ HandleCall(m_find, args, ok, opened)
            /\ IF ok
               THEN /\ cursor' = opened
                    /\ pc' = AfterBranch(m_find)
                    /\ UNCHANGED outcome
               ELSE /\ Raise("ExecutionFailed", <<>>)
                    /\ UNCHANGED cursor
    /\ UNCHANGED result

OpFind == Visiting /\ branch = m_find /\ Find(processed)

\* lines 164-167
Aggregate(p) ==
    /\ p.ok
    /\ Visit(p)
    /\ \E ok \in BOOLEAN :
         LET pipeline == IF p.val.t = "arr" THEN p.val ELSE JArr(<<p.val>>)
             opened   == Cursor(<<[op |-> m_aggregate, args |-> <<pipeline>>]>>)
         IN /\ HandleCall(m_aggregate, <<pipeline>>, ok, opened)
            /\ IF ok
               THEN /\ cursor' = opened
                    /\ pc' = AfterBranch(m_aggregate)
                    /\ UNCHANGED outcome
               ELSE /\ Raise("ExecutionFailed", <<>>)
                    /\ UNCHANGED cursor
    /\ UNCHANGED result

OpAggregate == Visiting /\ branch = m_aggregate /\ Aggregate(processed)

\* a call of the handle's count_documents returns: its filter parameter is
\* required, the call without one raises TypeError
Counted(args, ok) == ok /\ args # <<>>

\* lines 168-169
Count(p) ==
    /\ p.ok
    /\ Visit(p)
    /\ \E ok \in BOOLEAN, n \in CountResults :
         /\ HandleCall(<<"c", "o", "u", "n", "t", "_", "d", "o", "c", "u", "m", "e", "n", "t", "s">>, IF Truthy(p.val) THEN <<p.val>> ELSE <<>>,
                       Counted(IF Truthy(p.val) THEN <<p.val>> ELSE <<>>, ok), JInt(n))
         /\ IF Counted(IF Truthy(p.val) THEN <<p.val>> ELSE <<>>, ok)
            THEN /\ result' = JInt(n)
                 /\ pc' = AfterBranch(m_count)
                 /\ UNCHANGED outcome
            ELSE /\ Raise("ExecutionFailed", <<>>)
                 /\ UNCHANGED result
    /\ UNCHANGED cursor

OpCount == Visiting /\ branch = m_count /\ Count(processed)

\* lines 170-172
Distinct(p) ==
    /\ p.ok
    /\ Visit(p)
    /\ IF p.val.t = "obj" /\ p.val.v = <<>>
       THEN \* list(processed_args.keys())[0] of an empty mapping
            /\ Raise("IndexError", <<>>)
            /\ UNCHANGED <<calls, result>>
       ELSE \E ok \in BOOLEAN, values \in DistinctResults :
              LET field == IF p.val.t = "obj" THEN JStr(p.val.v[1].k) ELSE p.val
              IN /\ HandleCall(m_distinct, <<field>>, ok, values)
                 /\ IF ok
                    THEN /\ result' = values
                         /\ pc' = AfterBranch(m_distinct)
                         /\ UNCHANGED outcome
                    ELSE /\ Raise("ExecutionFailed", <<>>)
                         /\ UNCHANGED result
    /\ UNCHANGED cursor

OpDistinct == Visiting /\ branch = m_distinct /\ Distinct(processed)

\* what the driver's cursors take: the cursor of a find has limit, skip and
\* sort, and limit and skip take an integer (TypeError otherwise); the
\* command cursor of an aggregate has none of the three (AttributeError)
CursorAccepts(cur, b, val) ==
    /\ cur.v[1].op = m_find
    /\ b \in {m_limit, m_skip} => val.t = "int"

\* a call of limit, skip or sort returns
Transformed(cur, b, val, ok) == ok /\ CursorAccepts(cur, b, val)

\* lines 173-178: limit, skip or sort (b) on the cursor
Transform(b, p) ==
    /\ p.ok
    /\ Visit(p)
    /\ \E ok \in BOOLEAN :
         LET moved == Cursor(Append(cursor.v, [op |-> b, args |-> <<p.val>>]))
         IN /\ HandleCall(b, <<p.val>>, Transformed(cursor, b, p.val, ok), moved)
            /\ IF Transformed(cursor, b, p.val, ok)
               THEN /\ cursor' = moved
                    /\ pc' = AfterBranch(b)
                    /\ UNCHANGED outcome
               ELSE /\ Raise("ExecutionFailed", <<>>)
                    /\ UNCHANGED cursor
    /\ UNCHANGED result

OpTransform == Visiting /\ branch \in {m_limit, m_skip, m_sort} /\ Transform(branch, processed)

\* lines 179-180
Unsupported(p) ==
    /\ p.ok
    /\ Visit(p)
    /\ Raise("UnsupportedMethod", method)
    /\ UNCHANGED <<cursor, calls, result>>

OpUnsupported == Visiting /\ branch = <<"u", "n", "s", "u", "p", "p", "o", "r", "t", "e", "d">> /\ Unsupported(processed)

\* line 182: the chain is over; the cursor, if any, is drained
ReturnCursor ==
    /\ pc = "loop"
    /\ idx > Len(operations)
    /\ IF Truthy(cursor)
       THEN \E ok \in BOOLEAN, docs \in StoreResults :
              /\ HandleCall(<<"l", "i", "s", "t">>, <<>>, ok, docs)
              /\ IF ok
                 THEN /\ result' = docs
                      /\ pc' = "save"
                      /\ UNCHANGED outcome
                 ELSE /\ Raise("ExecutionFailed", <<>>)
                      /\ UNCHANGED result
       ELSE /\ result' = None
            /\ pc' = "save"
            /\ UNCHANGED <<calls, outcome>>
    /\ UNCHANGED <<query, shape, collection_name, operations, idx, cursor, file,
                   decodes, repairs>>
    /\ UNCHANGED <<fragment_vars, concurrent_vars, view_vars, sanitize_vars>>

\* lines 44-48: sanitize, write the file, return.  open(..., "w") may fail
\* and then leaves the file alone; once it succeeds the file is empty, and
\* json.dump raises on a value it cannot serialize after writing what
\* precedes it
Save(converted, opened) ==
    IF ~opened
    THEN /\ Raise("OpenFailed", <<>>)
         /\ UNCHANGED file
    ELSE IF Serializable(converted)
    THEN /\ file' = [state |-> "written", doc |-> converted]
         /\ outcome' = SuccessOutcome(converted)
         /\ pc' = "done"
    ELSE /\ file' = [state |-> "partial", doc |-> None]
         /\ Raise("NotSerializable", <<>>)

SaveResult ==
    /\ pc = "save"
    /\ \E opened \in BOOLEAN : Save(convert_objectid(result), opened)
    /\ UNCHANGED <<query, shape, collection_name, operations, idx, cursor, calls, result,
                   decodes, repairs>>
    /\ UNCHANGED <<fragment_vars, concurrent_vars, view_vars, sanitize_vars>>

Next == \/ ParseQuery
        \/ OpInvalidContent
        \/ OpInvalidLiteral
        \/ OpFind
        \/ OpAggregate
        \/ OpCount
        \/ OpDistinct
        \/ OpTransform
        \/ OpUnsupported
        \/ ReturnCursor
        \/ SaveResult

Spec == Init /\ [][Next]_vars

(***************************************************************************)
(* The normalizer and the decoder on their own: a fragment is drawn,       *)
(* _fix_mongo_json is applied to it, then _process_query_content.          *)
(***************************************************************************)
\* the integer n >= 0 as decimal text
RECURSIVE IntText(_)
IntText(n) == IF n < 10 THEN <<CHOOSE c \in Digit : DigitVal(c) = n>>
              ELSE IntText(n \div 10) \o IntText(n % 10)

\* a value tree as strict text, the way json.dumps writes it
RECURSIVE RenderStrict(_), StrictItems(_), StrictMembers(_)
RenderStrict(v) ==
    CASE v.t = "null" -> <<"n", "u", "l", "l">>
      [] v.t = "bool" -> IF v.v THEN <<"t", "r", "u", "e">> ELSE <<"f", "a", "l", "s", "e">>
      [] v.t = "int"  -> IF v.v < 0 THEN <<"-">> \o IntText(0 - v.v) ELSE IntText(v.v)
      [] v.t = "str"  -> <<Quote>> \o v.v \o <<Quote>>
      [] v.t = "arr"  -> <<"[">> \o StrictItems(v.v) \o <<"]">>
      [] v.t = "obj"  -> <<"{">> \o StrictMembers(v.v) \o <<"}">>

StrictItems(items) ==
    IF items = <<>> THEN <<>>
    ELSE RenderStrict(Head(items))
         \o (IF Len(items) > 1 THEN <<",", " ">> \o StrictItems(Tail(items)) ELSE <<>>)

StrictMembers(members) ==
    IF members = <<>> THEN <<>>
    ELSE <<Quote>> \o Head(members).k \o <<Quote>> \o <<":", " ">> \o RenderStrict(Head(members).v)
         \o (IF Len(members) > 1 THEN <<",", " ">> \o StrictMembers(Tail(members)) ELSE <<>>)

\* the same tree as a loose literal of the shell dialect: keys unquoted,
\* strings in single quotes
RECURSIVE RenderLoose(_), LooseItems(_), LooseMembers(_)
RenderLoose(v) ==
    CASE v.t = "null" -> <<"n", "u", "l", "l">>
      [] v.t = "bool" -> IF v.v THEN <<"t", "r", "u", "e">> ELSE <<"f", "a", "l", "s", "e">>
      [] v.t = "int"  -> IF v.v < 0 THEN <<"-">> \o IntText(0 - v.v) ELSE IntText(v.v)
      [] v.t = "str"  -> <<"'">> \o v.v \o <<"'">>
      [] v.t = "arr"  -> <<"[">> \o LooseItems(v.v) \o <<"]">>
      [] v.t = "obj"  -> <<"{">> \o LooseMembers(v.v) \o <<"}">>

LooseItems(items) ==
    IF items = <<>> THEN <<>>
    ELSE RenderLoose(Head(items))
         \o (IF Len(items) > 1 THEN <<",", " ">> \o LooseItems(Tail(items)) ELSE <<>>)

LooseMembers(members) ==
    IF members = <<>> THEN <<>>
    ELSE Head(members).k \o <<":">> \o RenderLoose(Head(members).v)
         \o (IF Len(members) > 1 THEN <<",", " ">> \o LooseMembers(Tail(members)) ELSE <<>>)

Atoms == {JInt(1), JStr(<<"o", "p", "e", "n">>), JBool(TRUE), JNull}

Keys == {<<"s", "t", "a", "t", "u", "s">>, <<"$", "o", "r">>, <<"_", "i", "d">>}

\* the trees one level deeper than those of S
Deeper(S) == S \cup {JObj(<<[k |-> k, v |-> v]>>) : k \in Keys, v \in S}
               \cup {JArr(<<v>>) : v \in S}
               \cup {JArr(<<JInt(1), v>>) : v \in S}
               \cup {JObj(<<[k |-> <<"s", "t", "a", "t", "u", "s">>, v |-> JStr(<<"o", "p", "e", "n">>)], [k |-> <<"$", "o", "r">>, v |-> v]>>) : v \in S}

RECURSIVE TreesTo(_)
TreesTo(d) == IF d = 0 THEN Atoms ELSE Deeper(TreesTo(d - 1))

\* the example of the specification: {status:'open', $or:[{a:1}]}
ExampleTree == JObj(<<[k |-> <<"s", "t", "a", "t", "u", "s">>, v |-> JStr(<<"o", "p", "e", "n">>)],
                      [k |-> <<"$", "o", "r">>, v |-> JArr(<<JObj(<<[k |-> <<"a">>, v |-> JInt(1)]>>)>>)]>>)

Trees == TreesTo(MaxDepth) \cup {ExampleTree}

\* identifier texts for the constructor call: well formed, in upper case,
\* too short, too long, not hexadecimal
OidCandidates == OidTexts \cup {Hex23 \o <<"F">>, Hex23, Hex23 \o <<"0", "0">>, Hex23 \o <<"g">>}

OidFragment(h) == <<"{", "_", "i", "d", ":", " ", "O", "b", "j", "e", "c", "t", "I", "d", "(", "\"">> \o h \o <<"\"", ")", "}">>

\* timestamp texts for the constructor call
DateTexts == {<<"2", "0", "2", "4", "-", "0", "1", "-", "0", "1", "T", "0", "0", ":", "0", "0", ":", "0", "0", "Z">>, <<"2", "0", "2", "4", "-", "0", "1", "-", "0", "1">>, <<"x">>, <<>>, <<"a", ",", "b", ",", "c">>, <<"i", "t", "'", "s">>, <<"{", "a", ":", "1", "}">>}

DateFragment(t) == <<"I", "S", "O", "D", "a", "t", "e", "(", "\"">> \o t \o <<"\"", ")">>

Frag(kind, tree, text) == [kind |-> kind, tree |-> tree, text |-> text]

InitFragment ==
    /\ \/ \E tree \in Trees :
            \/ frag = Frag("loose", tree, <<>>) /\ content = RenderLoose(tree)
            \/ frag = Frag("strict", tree, <<>>) /\ content = RenderStrict(tree)
       \/ \E h \in OidCandidates :
            frag = Frag("oid", None, h) /\ content = OidFragment(h)
       \/ \E t \in DateTexts :
            frag = Frag("date", None, t) /\ content = DateFragment(t)
    /\ fstage = "input"
    /\ fixed = <<>>
    /\ decoded = NoDecoded
    /\ PipelineIdle
    /\ ConcurrentIdle
    /\ ViewIdle
    /\ SanitizeIdle

RunFix ==
    /\ fstage = "input"
    /\ fixed' = fix_mongo_json(content)
    /\ fstage' = "fixed"
    /\ UNCHANGED <<content, frag, decoded>>
    /\ UNCHANGED <<pipeline_vars, concurrent_vars, view_vars, sanitize_vars>>

RunProcess ==
    /\ fstage = "fixed"
    /\ decoded' = process_query_content(content)
    /\ fstage' = "done"
    /\ UNCHANGED <<content, frag, fixed>>
    /\ UNCHANGED <<pipeline_vars, concurrent_vars, view_vars, sanitize_vars>>

NextFragment == RunFix \/ RunProcess

SpecFragment == InitFragment /\ [][NextFragment]_vars


(***************************************************************************)
(* Two calls of execute_query at once (one request thread each), both with *)
(* the default output_file.  Each has its own result and outcome; the file *)
(* at the default location is one file.  A call is followed from line 41   *)
(* on: execute, sanitize, open, dump, return.                              *)
(***************************************************************************)
\* what _execute_operations may hand a call
CallResults == {JInt(3)} \cup StoreResults

InitConcurrent ==
    /\ PipelineIdle
    /\ FragmentIdle
    /\ ViewIdle
    /\ SanitizeIdle
    /\ cpc = [c \in Callers |-> "execute"]
    /\ cresult = [c \in Callers |-> None]
    /\ coutcome = [c \in Callers |-> NoOutcome]
    /\ cfile = OldFile

\* the except clause of lines 50-52, for call c
CRaise(c, kind) == /\ coutcome' = [coutcome EXCEPT ![c] = ErrorOutcome(kind, <<>>)]
                   /\ cpc' = [cpc EXCEPT ![c] = "done"]

CGoto(c, label) == cpc' = [cpc EXCEPT ![c] = label]

\* line 41
CExecute(c) ==
    /\ cpc[c] = "execute"
    /\ \/ \E r \in CallResults : /\ cresult' = [cresult EXCEPT ![c] = r]
                                 /\ CGoto(c, "convert")
                                 /\ UNCHANGED coutcome
       \/ /\ CRaise(c, "ExecutionFailed")
          /\ UNCHANGED cresult
    /\ UNCHANGED cfile

\* line 44
CConvert(c) ==
    /\ cpc[c] = "convert"
    /\ cresult' = [cresult EXCEPT ![c] = convert_objectid(cresult[c])]
    /\ CGoto(c, "open")
    /\ UNCHANGED <<coutcome, cfile>>

\* line 45: open(output_file, "w") empties the file, whoever wrote it
COpen(c) ==
    /\ cpc[c] = "open"
    /\ \/ /\ cfile' = [state |-> "empty", doc |-> None]
          /\ CGoto(c, "dump")
          /\ UNCHANGED coutcome
       \/ /\ CRaise(c, "OpenFailed")
          /\ UNCHANGED cfile
    /\ UNCHANGED cresult

\* the file after call c has written doc from its own position 0: onto an
\* empty file the text of doc; onto what another call wrote since c opened
\* the file, the text of doc followed by what is left of the longer text
Overwritten(doc) ==
    IF cfile.state = "empty"
    THEN {[state |-> "written", doc |-> doc]}
    ELSE {[state |-> "written", doc |-> doc], [state |-> "mixed", doc |-> None]}

\* line 46
CDump(c) ==
    /\ cpc[c] = "dump"
    /\ IF Serializable(cresult[c])
       THEN /\ cfile' \in Overwritten(cresult[c])
            /\ CGoto(c, "return")
            /\ UNCHANGED coutcome
       ELSE /\ cfile' = [state |-> "partial", doc |-> None]
            /\ CRaise(c, "NotSerializable")
    /\ UNCHANGED cresult

\* line 48
CReturn(c) ==
    /\ cpc[c] = "return"
    /\ coutcome' = [coutcome EXCEPT ![c] = SuccessOutcome(cresult[c])]
    /\ cpc' = [cpc EXCEPT ![c] = "done"]
    /\ UNCHANGED <<cresult, cfile>>

\* the other specifications' variables stay put
Aside == UNCHANGED <<pipeline_vars, fragment_vars, view_vars, sanitize_vars>>

CallExecute == Aside /\ \E c \in Callers : CExecute(c)

CallConvert == Aside /\ \E c \in Callers : CConvert(c)

CallOpen == Aside /\ \E c \in Callers : COpen(c)

CallDump == Aside /\ \E c \in Callers : CDump(c)

CallReturn == Aside /\ \E c \in Callers : CReturn(c)

NextConcurrent == \/ CallExecute
                  \/ CallConvert
                  \/ CallOpen
                  \/ CallDump
                  \/ CallReturn

SpecConcurrent == InitConcurrent /\ [][NextConcurrent]_vars

(***************************************************************************)
(* convert_objectid alone, on value trees.  The lists and dicts of a tree  *)
(* are objects of a heap (a cell each, holding references to its           *)
(* elements); scalars are values.                                          *)
(***************************************************************************)
\* the deepest nesting of the trees drawn
MaxNest == 2

\* datetime(2024, 1, 1, 12, 30, 5, 123000, tzinfo=utc)
ADateAware == [t |-> "datetime", v |-> [date |-> <<"2", "0", "2", "4", "-", "0", "1", "-", "0", "1">>, time |-> <<"1", "2", ":", "3", "0", ":", "0", "5">>,
                                        micro |-> <<"1", "2", "3", "0", "0", "0">>, offset |-> <<"+", "0", "0", ":", "0", "0">>]]

\* a value of another store type (Decimal128("9.99"))
ADecimal == [t |-> "other", v |-> <<"9", ".", "9", "9">>]

Leaves == {AnOid, ADate, ADateAware, ADecimal, JStr(<<"o", "p", "e", "n">>), JInt(7), JNull}

SideLeaves == {AnOid, JStr(<<"o", "p", "e", "n">>)}

RECURSIVE Nested(_)
Nested(n) ==
    IF n = 0 THEN Leaves
    ELSE Leaves
         \cup {JArr(<<>>), JObj(<<>>)}
         \cup {JArr(<<x, y>>) : x \in Nested(n - 1), y \in SideLeaves}
         \cup {JObj(<<[k |-> <<"_", "i", "d">>, v |-> y], [k |-> <<"i", "t", "e", "m">>, v |-> x]>>) :
                 x \in Nested(n - 1), y \in SideLeaves}

Ref(a) == [t |-> "ref", v |-> a]

\* a new cell of the given kind at the end of heap r.h; r.xs are its elements
NewList(r) == [h |-> Append(r.h, JArr(r.xs)), x |-> Ref(Len(r.h) + 1)]

NewDict(r, keys) ==
    [h |-> Append(r.h, JObj([i \in DOMAIN keys |-> [k |-> keys[i], v |-> r.xs[i]]])),
     x |-> Ref(Len(r.h) + 1)]

KeysOf(members) == [i \in DOMAIN members |-> members[i].k]

ValuesOf(members) == [i \in DOMAIN members |-> members[i].v]

\* tree t laid out in heap h
RECURSIVE Store(_, _), StoreItems(_, _, _)
Store(h, t) ==
    CASE t.t = "arr" -> NewList(StoreItems(h, t.v, <<>>))
      [] t.t = "obj" -> NewDict(StoreItems(h, ValuesOf(t.v), <<>>), KeysOf(t.v))
      [] OTHER -> [h |-> h, x |-> t]

StoreNext(r, rest, acc) == StoreItems(r.h, rest, Append(acc, r.x))

StoreItems(h, items, acc) ==
    IF items = <<>> THEN [h |-> h, xs |-> acc]
    ELSE StoreNext(Store(h, Head(items)), Tail(items), acc)

\* the tree that x stands for in heap h
RECURSIVE Load(_, _)
Load(h, x) ==
    IF x.t # "ref" THEN x
    ELSE IF h[x.v].t = "arr"
         THEN JArr([i \in DOMAIN h[x.v].v |-> Load(h, h[x.v].v[i])])
         ELSE JObj([i \in DOMAIN h[x.v].v |->
                      [k |-> h[x.v].v[i].k, v |-> Load(h, h[x.v].v[i].v)]])

\* a variant that converts the elements where they are and returns its
\* argument
RECURSIVE ConvertInPlace(_, _), PlaceItems(_, _, _)
PlacedList(r, a) == [h |-> [r.h EXCEPT ![a] = JArr(r.xs)], x |-> Ref(a)]

PlacedDict(r, a, keys) ==
    [h |-> [r.h EXCEPT ![a] = JObj([i \in DOMAIN keys |-> [k |-> keys[i], v |-> r.xs[i]]])],
     x |-> Ref(a)]

ConvertInPlace(h, x) ==
    CASE x.t = "ref" /\ h[x.v].t = "arr" -> PlacedList(PlaceItems(h, h[x.v].v, <<>>), x.v)
      [] x.t = "ref" /\ h[x.v].t = "obj" ->
             PlacedDict(PlaceItems(h, ValuesOf(h[x.v].v), <<>>), x.v, KeysOf(h[x.v].v))
      [] x.t = "oid" -> [h |-> h, x |-> JStr(HexOf(x.v))]
      [] x.t = "datetime" -> [h |-> h, x |-> JStr(StrOfDatetime(x.v))]
      [] OTHER -> [h |-> h, x |-> x]

PlaceNext(r, rest, acc) == PlaceItems(r.h, rest, Append(acc, r.x))

PlaceItems(h, items, acc) ==
    IF items = <<>> THEN [h |-> h, xs |-> acc]
    ELSE PlaceNext(ConvertInPlace(h, Head(items)), Tail(items), acc)

\* convert_objectid on the heap: the comprehensions of lines 187 and 189
\* build a new list or dict of the converted elements, str() a new string,
\* and line 192 returns the argument itself
RECURSIVE ConvertIn(_, _), ConvertItems(_, _, _)
ConvertIn(h, x) ==
    CASE x.t = "ref" /\ h[x.v].t = "arr" -> NewList(ConvertItems(h, h[x.v].v, <<>>))
      [] x.t = "ref" /\ h[x.v].t = "obj" ->
             NewDict(ConvertItems(h, ValuesOf(h[x.v].v), <<>>), KeysOf(h[x.v].v))
      [] x.t = "oid" -> [h |-> h, x |-> JStr(HexOf(x.v))]
      [] x.t = "datetime" -> [h |-> h, x |-> JStr(StrOfDatetime(x.v))]
      [] OTHER -> [h |-> h, x |-> x]

ConvertNext(r, rest, acc) == ConvertItems(r.h, rest, Append(acc, r.x))

ConvertItems(h, items, acc) ==
    IF items = <<>> THEN [h |-> h, xs |-> acc]
    ELSE ConvertNext(ConvertIn(h, Head(items)), Tail(items), acc)

Stored(t, r) == /\ original = t
                /\ heap = r.h
                /\ root = r.x

InitSanitize ==
    /\ PipelineIdle
    /\ FragmentIdle
    /\ ConcurrentIdle
    /\ ViewIdle
    /\ \E t \in Nested(MaxNest) : Stored(t, Store(<<>>, t))
    /\ sstage = "input"
    /\ once = None
    /\ twice = None
    /\ heap_after = <<>>
    /\ root_after = None

Converted(r) == /\ heap_after' = r.h
                /\ root_after' = r.x

\* result = convert_objectid(result)
Sanitize ==
    /\ sstage = "input"
    /\ once' = convert_objectid(original)
    /\ Converted(ConvertIn(heap, root))
    /\ sstage' = "once"
    /\ UNCHANGED <<original, twice, heap, root>>
    /\ UNCHANGED <<pipeline_vars, fragment_vars, concurrent_vars, view_vars>>

\* the sanitizer applied to its own result
SanitizeAgain ==
    /\ sstage = "once"
    /\ twice' = convert_objectid(once)
    /\ sstage' = "twice"
    /\ UNCHANGED <<original, once, heap, root, heap_after, root_after>>
    /\ UNCHANGED <<pipeline_vars, fragment_vars, concurrent_vars, view_vars>>

NextSanitize == \/ Sanitize
                \/ SanitizeAgain

SpecSanitize == InitSanitize /\ [][NextSanitize]_vars

(***************************************************************************)
(* The two POST views of blog/views.py.  A request body is a mapping;      *)
(* a key it lacks is marked absent.                                        *)
(***************************************************************************)
Absent == [t |-> "absent", v |-> 0]

\* request.data.get(key) and request.data.get(key, default)
Get(x) == IF x = Absent THEN None ELSE x

GetOr(x, default) == IF x = Absent THEN default ELSE x

MissingUserInput == <<"M", "i", "s", "s", "i", "n", "g", " ", "'", "u", "s", "e", "r", "_", "i", "n", "p", "u", "t", "'", " ", "p", "a", "r", "a", "m", "e", "t", "e", "r", ".">>

MissingGeneratedQuery == <<"M", "i", "s", "s", "i", "n", "g", " ", "'", "g", "e", "n", "e", "r", "a", "t", "e", "d", "_", "q", "u", "e", "r", "y", "'", " ", "p", "a", "r", "a", "m", "e", "t", "e", "r", ".">>

InvalidGeneratedQuery == <<"I", "n", "v", "a", "l", "i", "d", " ", "'", "g", "e", "n", "e", "r", "a", "t", "e", "d", "_", "q", "u", "e", "r", "y", "'", " ", "f", "o", "r", "m", "a", "t", ".">>

\* "An error occurred: ..." of the views' except clauses
ErrorOccurred == <<"A", "n", " ", "e", "r", "r", "o", "r", " ", "o", "c", "c", "u", "r", "r", "e", "d">>

HTTP_200_OK == 200

HTTP_400_BAD_REQUEST == 400

HTTP_500_INTERNAL_SERVER_ERROR == 500

UserInputs == {Absent, JNull, JStr(<<>>), JStr(<<" ">>), JStr(<<"o", "p", "e", "n", " ", "o", "r", "d", "e", "r", "s">>), JInt(5)}

DbSelections == {Absent, JNull, JStr(<<"s", "q", "l">>), JStr(<<"S", "Q", "L">>), JStr(<<"m", "o", "n", "g", "o">>)}

QueryText == <<"d", "b", ".", "o", "r", "d", "e", "r", "s", ".", "f", "i", "n", "d", "(", ")">>

GeneratedQueries == {Absent, JNull, JStr(<<>>), JStr(QueryText),
                     JObj(<<>>),
                     JObj(<<[k |-> <<"q", "u", "e", "r", "y">>, v |-> JStr(QueryText)]>>),
                     JObj(<<[k |-> <<"q", "u", "e", "r", "y">>, v |-> JStr(<<>>)]>>),
                     JObj(<<[k |-> <<"s", "q", "l">>, v |-> JStr(QueryText)]>>)}

GenerateRequests == {[view |-> "generate", body |-> [user_input |-> u, db_selected |-> d]] :
                       u \in UserInputs, d \in DbSelections}

ExecuteRequests == {[view |-> "execute", body |-> [generated_query |-> g, db_selected |-> d]] :
                      g \in GeneratedQueries, d \in DbSelections}

InitView ==
    /\ PipelineIdle
    /\ FragmentIdle
    /\ ConcurrentIdle
    /\ SanitizeIdle
    /\ request \in GenerateRequests \cup ExecuteRequests
    /\ response = NoResponse
    /\ invoked = {}

Respond(status, body, used) ==
    /\ response' = [status |-> status, body |-> body]
    /\ invoked' = used

ErrorBody(message) == [error |-> message]

\* the except clause of a view: status 500
Failed(used) == Respond(HTTP_500_INTERNAL_SERVER_ERROR, ErrorBody(ErrorOccurred), used)

\* 'query' in generated_query, and generated_query.get('query')
HasQuery(g) == \E i \in DOMAIN g.v : g.v[i].k = <<"q", "u", "e", "r", "y">>

QueryOf(g) == IF g.t = "obj"
              THEN IF HasQuery(g)
                   THEN g.v[CHOOSE i \in DOMAIN g.v : g.v[i].k = <<"q", "u", "e", "r", "y">>].v
                   ELSE None
              ELSE g

\* views.py lines 349-368: the generator, then save_chat_history; either may
\* raise
Generate(db) ==
    \E generated \in BOOLEAN, saved \in BOOLEAN :
        IF ~generated THEN Failed({"generator"})
        ELSE IF ~saved THEN Failed({"generator", "database"})
        ELSE Respond(HTTP_200_OK, [generated_query |-> QueryText], {"generator", "database"})

\* views.py lines 341-372, user_input and db_selected as the body gives them
GenerateFor(user_input, db_selected) ==
    IF db_selected.t # "str"
    THEN \* .lower() of a value that is no string
         Failed({})
    ELSE IF ~Truthy(user_input) \/ user_input.t # "str" \/ Strip(user_input.v) = <<>>
    THEN Respond(HTTP_400_BAD_REQUEST, ErrorBody(MissingUserInput), {})
    ELSE Generate(ToLower(db_selected.v))

GenerateQueryView_post ==
    /\ request.view = "generate"
    /\ response = NoResponse
    /\ GenerateFor(Get(request.body.user_input), GetOr(request.body.db_selected, JStr(<<"s", "q", "l">>)))
    /\ UNCHANGED request
    /\ UNCHANGED <<pipeline_vars, fragment_vars, concurrent_vars, sanitize_vars>>

\* views.py lines 403-416: the SQL executor raises on failure
ExecuteSql ==
    \E connected \in BOOLEAN, executed \in BOOLEAN :
        IF ~connected THEN Failed({"database"})
        ELSE IF ~executed THEN Failed({"database", "executor"})
        ELSE Respond(HTTP_200_OK, [execution_result |-> "result"], {"database", "executor"})

\* views.py lines 418-430: the MongoDB executor returns an error outcome or
\* a success outcome
ExecuteMongo ==
    \E connected \in BOOLEAN, kind \in ErrorKinds \cup {"none"} :
        IF ~connected THEN Failed({"database"})
        ELSE IF kind # "none"
        THEN Respond(HTTP_400_BAD_REQUEST, ErrorBody(kind), {"database", "executor"})
        ELSE Respond(HTTP_200_OK, [execution_result |-> "data"], {"database", "executor"})

\* views.py lines 390-434
ExecuteFor(generated_query, db_selected) ==
    IF db_selected.t # "str"
    THEN Failed({})
    ELSE IF ~Truthy(generated_query) \/ (generated_query.t = "obj" /\ ~HasQuery(generated_query))
    THEN Respond(HTTP_400_BAD_REQUEST, ErrorBody(MissingGeneratedQuery), {})
    ELSE IF ~Truthy(QueryOf(generated_query))
    THEN Respond(HTTP_400_BAD_REQUEST, ErrorBody(InvalidGeneratedQuery), {})
    ELSE IF ToLower(db_selected.v) = <<"s", "q", "l">> THEN ExecuteSql
    ELSE ExecuteMongo

ExecuteQueryView_post ==
    /\ request.view = "execute"
    /\ response = NoResponse
    /\ ExecuteFor(Get(request.body.generated_query), GetOr(request.body.db_selected, JStr(<<"s", "q", "l">>)))
    /\ UNCHANGED request
    /\ UNCHANGED <<pipeline_vars, fragment_vars, concurrent_vars, sanitize_vars>>

NextView == \/ GenerateQueryView_post
            \/ ExecuteQueryView_post

SpecView == InitView /\ [][NextView]_vars
(***************************************************************************)
(* Properties.                                                             *)
(***************************************************************************)
Done == pc = "done"

\* the lower-cased method name of the operation at position i
MethodAt(i) == ToLower(operations[i].method)

\* the operation at position i has been visited by the loop
Visited(i) == i \in DOMAIN operations /\ i < idx

Recognized == {m_find, m_aggregate, m_count, m_distinct, m_limit, m_skip, m_sort}

\* C1: terminal short-circuit.  When the loop visits a count operation at
\* position i whose argument decodes, whatever the cursor was, the handle's
\* count is called at that position, no operation after position i is
\* visited or applied to the handle or a cursor, and a success outcome
\* carries the integer the handle's count returned.
C1_TerminalShortCircuit ==
    \A i \in DOMAIN operations :
        (Visited(i) /\ MethodAt(i) = m_count /\ ProcessArgs(m_count, operations[i].args).ok)
        => /\ idx = i + 1
           /\ calls # <<>>
           /\ calls[Len(calls)].pos = i
           /\ calls[Len(calls)].op = <<"c", "o", "u", "n", "t", "_", "d", "o", "c", "u", "m", "e", "n", "t", "s">>
           /\ \A n \in DOMAIN calls : calls[n].pos <= i
           /\ pc # "loop"
           /\ outcome.status = "success"
                => /\ outcome.data = calls[Len(calls)].ret
                   /\ outcome.data.t = "int"

\* a count was reached with a cursor open, operations follow it in the
\* chain, and the call succeeded
C1_Witness ==
    /\ Done
    /\ outcome.status = "success"
    /\ Len(operations) = 3
    /\ MethodAt(1) = m_find
    /\ MethodAt(2) = m_count
    /\ idx = 3
    /\ cursor # None
    /\ outcome.data = JInt(3)

\* C2 (as claimed): limit, skip or sort visited while no cursor is open is
\* a silent no-op; the call does not end in an error there, and a chain of
\* limit alone ends with the "no result" value in a success outcome.
C2_NoCursorTransformIsNoOp ==
    /\ (Done /\ idx > 1 /\ Visited(idx - 1) /\ cursor = None
          /\ MethodAt(idx - 1) \in {m_limit, m_skip, m_sort})
       => outcome.status # "error"
    /\ (Done /\ shape.kind = "chain" /\ shape.style = "plain"
          /\ shape.chain = <<Call(m_limit, <<"5">>)>>)
       => (outcome.status = "success" /\ outcome.data = None)

MatchesHeadPattern(q) ==
    /\ HasAt(q, 1, <<"d", "b", ".">>)
    /\ \E d1 \in 5..Len(q) :
         /\ q[d1] = "."
         /\ \A j \in 4..(d1 - 1) : q[j] \in WordChar
         /\ \E p1 \in (d1 + 2)..Len(q) :
              /\ q[p1] = "("
              /\ \A j \in (d1 + 1)..(p1 - 1) : q[j] \in WordChar
              /\ \E p2 \in (p1 + 1)..Len(q) : q[p2] = ")"

\* C4: a text that does not match the head pattern ends in MalformedQuery,
\* and neither the decoder, nor the normalizer, nor the collection handle
\* is invoked.
C4_MalformedRejectedEarly ==
    (pc # "parse" /\ ~MatchesHeadPattern(Strip(query)))
    => /\ Done
       /\ outcome = ErrorOutcome("MalformedQuery", <<>>)
       /\ decodes = 0
       /\ repairs = 0
       /\ calls = <<>>
       /\ cursor = None

C4_Witness ==
    /\ Done
    /\ query = <<"n", "o", "t", ".", "a", ".", "q", "u", "e", "r", "y">>
    /\ outcome.kind = "MalformedQuery"

\* the argument texts of a chain hold none of the characters of S
ArgsAvoid(chain, S) == \A i \in DOMAIN chain : \A j \in DOMAIN chain[i].args :
                           chain[i].args[j] \notin S

\* C5 (as claimed): a text db.<c>.<m1>(<a1>)...<mk>(<ak>) whose argument
\* texts hold no parentheses is tokenized into collection c and exactly the
\* pairs (m1,a1),...,(mk,ak) in order.
C5_TokenizerExact ==
    (pc # "parse" /\ shape.kind = "chain" /\ shape.style = "plain"
       /\ ArgsAvoid(shape.chain, {"(", ")"}))
    => /\ collection_name = shape.collection
       /\ operations = shape.chain

\* What the tokenizer does deliver: the same for argument texts that hold
\* neither parentheses nor a line break.
TokenizerExactOnOneLine ==
    (pc # "parse" /\ shape.kind = "chain" /\ shape.style = "plain"
       /\ ArgsAvoid(shape.chain, {"(", ")", Newline}))
    => /\ collection_name = shape.collection
       /\ operations = shape.chain

\* a chain of three calls has been tokenized
TokenizedThreeCalls ==
    /\ pc = "loop"
    /\ idx = 1
    /\ shape.kind = "chain"
    /\ shape.style = "plain"
    /\ Len(shape.chain) = 3
    /\ ArgsAvoid(shape.chain, {"(", ")", Newline})
    /\ operations = shape.chain
    /\ collection_name = <<"o", "r", "d", "e", "r", "s">>

\* the operations as the executor interprets them
Compiled(ops) == [i \in DOMAIN ops |->
                    [method |-> ToLower(ops[i].method),
                     val |-> ProcessArgs(ToLower(ops[i].method), ops[i].args).val]]

\* C6 (as claimed): however white space is put around the dots and the
\* parentheses of db.c.find({}).limit(5), the operations tokenized and
\* executed are [Find({}), Limit(5)].
C6_WhitespaceIndependence ==
    (pc # "parse" /\ shape.kind = "chain"
       /\ shape.chain = <<Call(m_find, <<"{", "}">>), Call(m_limit, <<"5">>)>>
       /\ shape.style \in {"plain", "dot", "paren", "inner", "outer"})
    => Compiled(operations) = <<[method |-> m_find, val |-> EmptyObj],
                                [method |-> m_limit, val |-> JInt(5)]>>

\* C9 (as claimed): db.c.find({_id: ObjectId("h")}) is tokenized with the
\* whole text between the outer parentheses as the argument, is repaired,
\* and a cursor is opened with the filter {_id: {$oid: h}}.
C9_ConstructorThroughPipeline ==
    (pc # "parse" /\ shape.kind = "oid")
    => /\ operations = <<Call(m_find, <<"{", "_", "i", "d", ":", " ", "O", "b", "j", "e", "c", "t", "I", "d", "(", "\"">> \o shape.h \o <<"\"", ")", "}">>)>>
       /\ outcome.kind # "InvalidQueryContent"
       /\ Done => /\ calls # <<>>
                  /\ calls[1].op = m_find
                  /\ calls[1].args = <<JObj(<<[k |-> <<"_", "i", "d">>,
                                               v |-> JObj(<<[k |-> <<"$", "o", "i", "d">>, v |-> JStr(shape.h)]>>)]>>)>>

\* C7 (as claimed): a loose literal decodes, through
\* _process_query_content, to the value tree it was written from.
C7_RepairPreservesValue ==
    (fstage = "done" /\ frag.kind = "loose")
    => (decoded.ok /\ decoded.val = frag.tree)

\* C8 (as claimed): the normalizer returns strict text unchanged.
C8_FixIdempotentOnStrict ==
    (fstage # "input" /\ frag.kind = "strict") => fixed = content

\* 24 characters, each a hexadecimal digit of the characters of S
IsHex24(h, S) == Len(h) = 24 /\ \A j \in DOMAIN h : h[j] \in S

OidValue(h) == JObj(<<[k |-> <<"_", "i", "d">>, v |-> JObj(<<[k |-> <<"$", "o", "i", "d">>, v |-> JStr(h)]>>)]>>)

DateText(t) == <<"{", "\"", "$", "d", "a", "t", "e", "\"", ":", " ", "\"">> \o t \o <<"\"", "}">>

\* C10 (as claimed): for every 24-character hexadecimal h,
\* {_id: ObjectId("h")} decodes to {_id: {$oid: h}}, and for every text t
\* without double quotes ISODate("t") is rewritten to {"$date": "t"}.
C10_ConstructorRewriting ==
    /\ (fstage = "done" /\ frag.kind = "oid"
          /\ IsHex24(frag.text, HexChar \cup {"A", "B", "C", "D", "E", "F"}))
       => (decoded.ok /\ decoded.val = OidValue(frag.text))
    /\ (fstage = "done" /\ frag.kind = "date" /\ \A j \in DOMAIN frag.text : frag.text[j] # Quote)
       => fixed = DateText(frag.text)

\* What the normalizer does deliver: the same for every h of 24 lower-case
\* hexadecimal characters, and for every non-empty t that holds no double
\* quote, no single quote and none of "{", "[" and ",".
ConstructorRewritingLowerCase ==
    /\ (fstage = "done" /\ frag.kind = "oid" /\ IsHex24(frag.text, HexChar))
       => (decoded.ok /\ decoded.val = OidValue(frag.text) /\ decoded.repairs = 1)
    /\ (fstage # "input" /\ frag.kind = "date" /\ frag.text # <<>>
          /\ \A j \in DOMAIN frag.text : frag.text[j] \notin {Quote, "'", "{", "[", ","})
       => fixed = DateText(frag.text)

\* an identifier constructor has been rewritten and decoded
ConstructorRewritten ==
    /\ fstage = "done"
    /\ frag.kind = "oid"
    /\ IsHex24(frag.text, HexChar)
    /\ fixed = <<"{", "\"", "_", "i", "d", "\"", ":", " ", "{", "\"", "$", "o", "i", "d", "\"", ":", " ", "\"">> \o frag.text \o <<"\"", "}", "}">>
    /\ decoded.ok


\* the call made on the handle at position i, if one was made there
CallsAt(i) == {n \in DOMAIN calls : calls[n].pos = i}

\* C11 (as claimed): a find or a count whose argument text is empty or
\* white space compiles to the empty filter: the handle's find, or its
\* count_documents with the empty filter, is called, and the argument is
\* not what makes the call fail.
C11_EmptyArgumentIsValid ==
    \A i \in DOMAIN operations :
        (Visited(i) /\ MethodAt(i) \in {m_find, m_count} /\ Strip(operations[i].args) = <<>>)
        => /\ outcome.kind \notin {"InvalidQueryContent", "UnsupportedMethod"}
           /\ \E n \in CallsAt(i) :
                \/ calls[n].op = m_find /\ calls[n].args \in {<<>>, <<EmptyObj>>}
                \/ calls[n].op = <<"c", "o", "u", "n", "t", "_", "d", "o", "c", "u", "m", "e", "n", "t", "s">> /\ calls[n].args = <<EmptyObj>>

FilterOpen == JObj(<<[k |-> <<"s", "t", "a", "t", "u", "s">>, v |-> JStr(<<"o", "p", "e", "n">>)]>>)

\* C12 (as claimed): find(F, P), written as two literals with a comma
\* between, opens a cursor with filter F and projection P.
C12_FindWithProjection ==
    (Done /\ shape.kind = "chain" /\ shape.style = "plain"
       /\ shape.chain = <<Call(m_find, <<"{", "s", "t", "a", "t", "u", "s", ":", "'", "o", "p", "e", "n", "'", "}", ",", " ", "{", "t", "o", "t", "a", "l", ":", "1", "}">>)>>)
    => /\ calls # <<>>
       /\ calls[1].op = m_find
       /\ calls[1].args = <<FilterOpen, JObj(<<[k |-> <<"t", "o", "t", "a", "l">>, v |-> JInt(1)]>>)>>
       /\ outcome.kind # "InvalidQueryContent"

\* the field a distinct call is to select, read off its argument text as the
\* specification describes
FieldStatus == JStr(<<"s", "t", "a", "t", "u", "s">>)

\* C13 (as claimed): distinct takes its field from the first key of a
\* mapping, from a string, or from raw text that is no structured data; the
\* outcome's data is what the handle's distinct(field) returned and no later
\* operation is applied.
C13_DistinctSelectsField ==
    \A i \in DOMAIN operations :
        (Visited(i) /\ MethodAt(i) = m_distinct
           /\ operations[i].args \in {<<"{", "s", "t", "a", "t", "u", "s", ":", "1", "}">>, <<"'", "s", "t", "a", "t", "u", "s", "'">>, <<"s", "t", "a", "t", "u", "s">>})
        => /\ idx = i + 1
           /\ pc # "loop"
           /\ outcome.kind # "InvalidQueryContent"
           /\ \E n \in CallsAt(i) : /\ calls[n].op = m_distinct
                                    /\ calls[n].args = <<FieldStatus>>
                                    /\ n = Len(calls)
                                    /\ outcome.status = "success" => outcome.data = calls[n].ret

\* What distinct does deliver: the same for a non-empty mapping and for a
\* quoted string.
DistinctFromMappingOrString ==
    \A i \in DOMAIN operations :
        (Visited(i) /\ MethodAt(i) = m_distinct
           /\ operations[i].args \in {<<"{", "s", "t", "a", "t", "u", "s", ":", "1", "}">>, <<"'", "s", "t", "a", "t", "u", "s", "'">>})
        => /\ idx = i + 1
           /\ pc # "loop"
           /\ \E n \in CallsAt(i) : /\ calls[n].op = m_distinct
                                    /\ calls[n].args = <<FieldStatus>>
                                    /\ n = Len(calls)
                                    /\ outcome.status = "success" => outcome.data = calls[n].ret

\* what execute_query hands back: an outcome with the error message alone,
\* no status, data or file in it, or, when nothing failed, status success
\* with the sanitized data and the file path
Returned ==
    \/ /\ outcome.status = "error"
       /\ outcome.kind \in ErrorKinds
       /\ outcome.keys = {"error"}
       /\ outcome.data = None
       /\ outcome.file = <<>>
    \/ /\ outcome.status = "success"
       /\ outcome.keys = {"status", "data", "file"}
       /\ outcome.data = convert_objectid(result)
       /\ outcome.file = output_file
       /\ \A n \in DOMAIN calls : calls[n].ok

\* C14: execute_query never raises to its caller.  Nothing is handed back
\* before the call is over, the call is over only by returning, and what it
\* returns is a single error outcome or a complete success outcome.
C14_NeverRaises ==
    IF pc = "done"
    THEN Returned
    ELSE outcome = NoOutcome /\ pc \in {"parse", "loop", "save"}

\* a call that had fetched its documents failed while writing them out
C14_Witness ==
    /\ pc = "done"
    /\ outcome.kind = "NotSerializable"
    /\ result = JArr(<<StoredDoc, OddDoc>>)
    /\ Len(calls) = 2

\* C15 (as claimed): whenever execute_query returns an error outcome, the
\* output file holds what it held before the call.
C15_FailureLeavesFileAlone ==
    (pc = "done" /\ outcome.status = "error") => file = OldFile

\* C16 (as claimed): two calls at once share nothing but the collection
\* handle; once both have returned a success, the file each outcome names
\* holds that call's data.
C16_ConcurrentCallsIsolated ==
    (\A c \in Callers : cpc[c] = "done" /\ coutcome[c].status = "success")
    => \A c \in Callers : /\ coutcome[c].file = output_file
                          /\ coutcome[c].data = cresult[c]
                          /\ cfile = [state |-> "written", doc |-> coutcome[c].data]

\* the positions of a tree: the index paths from its root
RECURSIVE Paths(_)
Paths(t) ==
    {<<>>} \cup
    (IF t.t \in {"arr", "obj"}
     THEN UNION {{<<i>> \o p : p \in Paths(IF t.t = "arr" THEN t.v[i] ELSE t.v[i].v)} :
                   i \in DOMAIN t.v}
     ELSE {})

RECURSIVE At(_, _)
At(t, p) ==
    IF p = <<>> THEN t
    ELSE At(IF t.t = "arr" THEN t.v[Head(p)] ELSE t.v[Head(p)].v, Tail(p))

\* the value of a hexadecimal digit
HexVal(c) == (CHOOSE i \in DOMAIN HexDigits : HexDigits[i] = c) - 1

\* text s is the hexadecimal string of the bytes
IsHexOf(s, bytes) ==
    /\ Len(s) = 2 * Len(bytes)
    /\ \A j \in DOMAIN s : s[j] \in HexChar
    /\ \A i \in DOMAIN bytes : bytes[i] = 16 * HexVal(s[2 * i - 1]) + HexVal(s[2 * i])

\* y is what the sanitizer is to leave where x was; sep is what stands
\* between date and time in a timestamp's text
SanitizedAs(x, y, sep) ==
    CASE x.t = "arr" -> y.t = "arr" /\ Len(y.v) = Len(x.v)
      [] x.t = "obj" -> y.t = "obj" /\ KeysOf(y.v) = KeysOf(x.v)
      [] x.t = "oid" -> y.t = "str" /\ IsHexOf(y.v, x.v)
      [] x.t = "datetime" ->
             y = JStr(x.v.date \o sep \o x.v.time
                      \o (IF x.v.micro = <<>> THEN <<>> ELSE <<".">> \o x.v.micro) \o x.v.offset)
      [] OTHER -> y = x

C18_SanitizeIdempotent ==
    /\ sstage = "twice" => twice = once
    /\ sstage # "input"
         => /\ \A a \in DOMAIN heap : heap_after[a] = heap[a]
            /\ Load(heap_after, root) = original
            /\ Load(heap_after, root_after) = once
            /\ root.t = "ref" => root_after # root

\* a nested tree with identifiers in it has been sanitized twice
C18_Witness ==
    /\ sstage = "twice"
    /\ original = JArr(<<JObj(<<[k |-> <<"_", "i", "d">>, v |-> AnOid], [k |-> <<"i", "t", "e", "m">>, v |-> ADate]>>),
                         AnOid>>)
    /\ once # original
    /\ Len(heap_after) = 2 * Len(heap)

\* the request lacks the parameter that carries the query
LacksQuery ==
    \/ request.view = "generate" /\ request.body.user_input = Absent
    \/ request.view = "execute" /\ request.body.generated_query = Absent

\* C19 (as claimed): a POST whose body lacks the query parameter (and names
\* the database, if at all, by a string) is answered with status 400 and
\* the error "Missing 'query_string' parameter.", and neither a generator,
\* nor an executor, nor the database is used for it.
C19_MissingQueryRejected ==
    (response # NoResponse /\ LacksQuery /\ request.body.db_selected # JNull)
    => /\ response.status = HTTP_400_BAD_REQUEST
       /\ response.body = ErrorBody(<<"M", "i", "s", "s", "i", "n", "g", " ", "'", "q", "u", "e", "r", "y", "_", "s", "t", "r", "i", "n", "g", "'", " ", "p", "a", "r", "a", "m", "e", "t", "e", "r", ".">>)
       /\ invoked = {}

\* What the views do deliver: status 400, the error naming the parameter of
\* the view ('user_input', 'generated_query'), and nothing used.
MissingQueryRejectedByName ==
    (response # NoResponse /\ LacksQuery /\ request.body.db_selected # JNull)
    => /\ response.status = HTTP_400_BAD_REQUEST
       /\ response.body = ErrorBody(IF request.view = "generate" THEN MissingUserInput
                                    ELSE MissingGeneratedQuery)
       /\ invoked = {}

\* C20 (as claimed): the value handed to a cursor's sort is a mapping or an
\* ordered sequence decoded from the argument text, never the raw text; and
\* no filter or pipeline reaching the collection handle is raw text either.
C20_SortArgumentDecoded ==
    \A n \in DOMAIN calls :
        calls[n].op \in {m_sort, m_find, m_aggregate, <<"c", "o", "u", "n", "t", "_", "d", "o", "c", "u", "m", "e", "n", "t", "s">>}
        => \A a \in DOMAIN calls[n].args :
             /\ calls[n].args[a].t \in {"obj", "arr"}
             /\ calls[n].op = m_sort
                  => calls[n].args[a] = process_query_content(operations[calls[n].pos].args).val

\* C21 (as claimed): compilation precedes execution; when some operation's
\* argument text cannot be repaired (InvalidQueryContent), at whatever
\* position of the chain, the call ends with an error outcome and no
\* operation on the collection handle has been invoked.
C21_CompilationPrecedesExecution ==
    (pc = "done" /\ outcome.kind = "InvalidQueryContent")
    => /\ outcome.status = "error"
       /\ calls = <<>>

\* C22: for a fragment that is not blank the text as given is decoded first
\* and, when that succeeds, its value is returned without any repair; only
\* when it fails the text is repaired, once, and the repaired text decoded,
\* once; when that fails too the fragment is rejected with the decode error
\* of the retry.
C22_DecodeProtocol ==
    (fstage = "done" /\ Strip(content) # <<>>)
    => IF json_loads(content).ok
       THEN decoded = [ok |-> TRUE, val |-> json_loads(content).val,
                       decodes |-> 1, repairs |-> 0, err |-> <<>>]
       ELSE /\ decoded.decodes = 2
            /\ decoded.repairs = 1
            /\ IF json_loads(fixed).ok
               THEN decoded.ok /\ decoded.val = json_loads(fixed).val /\ decoded.err = <<>>
               ELSE ~decoded.ok /\ decoded.err = DecodeError(fixed)

\* a fragment whose repair changes it and still does not decode
C22_Witness ==
    /\ fstage = "done"
    /\ Strip(content) # <<>>
    /\ ~decoded.ok
    /\ fixed # content
    /\ decoded.err = DecodeError(fixed)

\* a fragment that decodes as given although the repair would change it
C22_DirectWitness ==
    /\ fstage = "done"
    /\ decoded.ok
    /\ decoded.repairs = 0
    /\ fixed # content

\* C23 (as claimed): what is submitted to the handle's aggregate is always
\* an ordered sequence: a compiled sequence as it is, a compiled single
\* stage mapping wrapped in a one-element sequence, and the empty pipeline
\* when the call has no argument text.
C23_PipelineIsSequence ==
    \A n \in DOMAIN calls :
        calls[n].op = m_aggregate
        => /\ Len(calls[n].args) = 1
           /\ calls[n].args[1].t = "arr"
           /\ calls[n].args[1] =
                IF Strip(operations[calls[n].pos].args) = <<>>
                THEN JArr(<<>>)
                ELSE IF process_query_content(operations[calls[n].pos].args).val.t = "arr"
                     THEN process_query_content(operations[calls[n].pos].args).val
                     ELSE JArr(<<process_query_content(operations[calls[n].pos].args).val>>)

\* with argument text the pipeline is submitted as claimed
PipelineFromText ==
    \A n \in DOMAIN calls :
        (calls[n].op = m_aggregate /\ Strip(operations[calls[n].pos].args) # <<>>)
        => /\ Len(calls[n].args) = 1
           /\ calls[n].args[1].t = "arr"
           /\ calls[n].args[1] =
                IF process_query_content(operations[calls[n].pos].args).val.t = "arr"
                THEN process_query_content(operations[calls[n].pos].args).val
                ELSE JArr(<<process_query_content(operations[calls[n].pos].args).val>>)

\* C24 (as claimed): limit and skip convert an argument text that, trimmed,
\* consists of digits only to the integer it denotes; any other text is
\* handed to the cursor as it is, and the interpretation of the argument
\* raises no error by itself.
C24_DigitsConvertedElseRaw ==
    \A i \in 1..(idx - 1) :
        (pc # "parse" /\ i <= Len(operations) /\ ToLower(operations[i].method) \in {m_limit, m_skip})
        => /\ ~(pc = "done" /\ i = idx - 1 /\ outcome.kind = "InvalidLiteral")
           /\ \A n \in DOMAIN calls :
                calls[n].pos = i
                => calls[n].args =
                     IF IsDigit(Strip(operations[i].args))
                     THEN <<JInt(ToInt(Strip(operations[i].args)))>>
                     ELSE <<JStr(operations[i].args)>>

\* for texts of ASCII characters the conversion is as claimed
DecimalDigitsConvertedElseRaw ==
    \A n \in DOMAIN calls :
        calls[n].op \in {m_limit, m_skip}
        => calls[n].args =
             IF IsDecimal(Strip(operations[calls[n].pos].args))
             THEN <<JInt(ToInt(Strip(operations[calls[n].pos].args)))>>
             ELSE <<JStr(operations[calls[n].pos].args)>>

\* a chain of a find or an aggregate followed by limit, skip and sort only,
\* every argument of which is well formed: the first decodes (a pipeline is
\* given to aggregate), those of limit and skip are runs of decimal digits
CursorChain ==
    /\ operations # <<>>
    /\ ToLower(operations[1].method) \in {m_find, m_aggregate}
    /\ process_query_content(operations[1].args).ok
    /\ ToLower(operations[1].method) = m_aggregate => Strip(operations[1].args) # <<>>
    /\ \A i \in 2..Len(operations) :
         /\ ToLower(operations[i].method) \in {m_limit, m_skip, m_sort}
         /\ ToLower(operations[i].method) \in {m_limit, m_skip}
              => IsDecimal(Strip(operations[i].args))

\* the handle failed on its own: a call failed that the driver accepts
HandleFailed ==
    \E n \in DOMAIN calls :
        /\ ~calls[n].ok
        /\ \/ calls[n].op \notin {m_limit, m_skip, m_sort}
           \/ CursorAccepts(calls[n - 1].ret, calls[n].op, calls[n].args[1])

\* the calls made for a cursor chain that ran to its end: one per operation,
\* in chain order, each on the cursor the one before returned, then the
\* drain of the last cursor
AppliedInOrder ==
    /\ Len(calls) = Len(operations) + 1
    /\ \A i \in 1..Len(operations) :
         /\ calls[i].pos = i
         /\ calls[i].op = ToLower(operations[i].method)
         /\ calls[i].ok
         /\ calls[i].ret.t = "cursor"
         /\ Len(calls[i].ret.v) = i
         /\ i > 1 => SubSeq(calls[i].ret.v, 1, i - 1) = calls[i - 1].ret.v
    /\ calls[Len(calls)].op = <<"l", "i", "s", "t">>
    /\ calls[Len(calls)].ok
    /\ result = calls[Len(calls)].ret

\* C25 (as claimed): a find or an aggregate followed by any limit, skip and
\* sort operations keeps a cursor all along, applies each transformation
\* once, in chain order, to the cursor of the step before, and at the end of
\* the chain drains the last cursor into the outcome's data.
C25_CursorChainDrained ==
    (pc = "done" /\ CursorChain /\ ~HandleFailed
       /\ outcome.kind \notin {"OpenFailed", "NotSerializable"})
    => /\ AppliedInOrder
       /\ outcome = SuccessOutcome(convert_objectid(result))

\* a find followed by limit, skip and sort is executed as claimed
FindChainDrained ==
    (pc = "done" /\ CursorChain /\ ~HandleFailed
       /\ ToLower(operations[1].method) = m_find
       /\ outcome.kind \notin {"OpenFailed", "NotSerializable"})
    => /\ AppliedInOrder
       /\ outcome = SuccessOutcome(convert_objectid(result))

FindChainDrainedReached ==
    /\ pc = "done"
    /\ CursorChain
    /\ Len(operations) = 3
    /\ outcome.status = "success"
    /\ result.v # <<>>

\* whether text s ends with text t
EndsWith(s, t) == Len(t) <= Len(s) /\ SubSeq(s, Len(s) - Len(t) + 1, Len(s)) = t

\* the text the tokenizer's loop leaves unmatched in the query
Trailing == Unparsed(MatchHead(Strip(query)).first.remaining)

\* the query without the text t at its end
Without(t) == SubSeq(Strip(query), 1, Len(Strip(query)) - Len(t))

\* the query, tokenized, ends with text t that the call pattern does not
\* match
TrailingIs(t) == Strip(t) # <<>> /\ EndsWith(Strip(query), t)

HasTrailing ==
    /\ pc \in {"loop", "save", "done"}
    /\ operations # <<>>
    /\ TrailingIs(Trailing)

\* the tokenizer's answer is the one, parsed, it gives for the text kept, all
\* of which it matches, and no call is made past these operations
SameAs(kept, parsed) ==
    /\ parsed.ok
    /\ Unparsed(MatchHead(kept).first.remaining) = <<>>
    /\ collection_name = parsed.collection
    /\ operations = parsed.operations
    /\ \A n \in DOMAIN calls : calls[n].pos <= Len(parsed.operations) + 1

DroppedAs(kept) == SameAs(kept, parse_query_string(kept))

DroppedWhen(t) == TrailingIs(t) => DroppedAs(Without(t))

\* the tokenizer drops the text after the last call it matches
TokenizedWithoutTrailing ==
    /\ (pc = "done" /\ outcome.kind = "MalformedQuery") => ~MatchHead(Strip(query)).ok
    /\ (pc = "loop" /\ idx = 1) => DroppedWhen(Trailing)
    /\ \A n \in DOMAIN calls : calls[n].pos <= Len(operations) + 1

\* what the tokenizer returned is what the executor works on to the end
OperationsKept ==
    pc \in {"loop", "save"} => UNCHANGED <<query, collection_name, operations>>

\* C26: text after the last call that matches .<identifier>(<content>) is
\* dropped without an error: the tokenizer returns the operations matched so
\* far, the very collection and operations it returns for the query without
\* that text, and these are what is executed.
C26_TrailingTextDropped == []TokenizedWithoutTrailing /\ [][OperationsKept]_vars

\* a query with text after its last call that ran to a successful end
C26_Witness ==
    /\ pc = "done"
    /\ outcome.status = "success"
    /\ Len(operations) = 2
    /\ HasTrailing

\* every iteration of the tokenizer's loop leaves a shorter text
RECURSIVE Shortens(_), ShortensNext(_, _)
Shortens(remaining) ==
    IF Strip(remaining) = <<>> \/ remaining[1] # "."
    THEN TRUE
    ELSE ShortensNext(MatchCall(remaining, 2), remaining)

ShortensNext(next_match, remaining) ==
    \/ ~next_match.ok
    \/ /\ Len(next_match.remaining) < Len(remaining)
       /\ Shortens(next_match.remaining)

\* the steps execute_query has at most left: the tokenizer's (no more
\* operations than characters), one for each operation not yet visited, the
\* end of the loop and the saving
Rank ==
    CASE pc = "parse" -> Len(query) + 3
      [] pc = "loop"  -> (Len(operations) + 1 - idx) + 2
      [] pc = "save"  -> 1
      [] OTHER        -> 0

\* a call that has not returned has a step to take, whatever the operation
\* it is at
StepOpen ==
    CASE pc = "loop" /\ idx <= Len(operations) ->
             \/ ~processed.ok /\ method \in {m_find, m_aggregate, m_count, m_distinct,
                                             m_limit, m_skip}
             \/ processed.ok /\ branch \in {m_find, m_aggregate, m_count, m_distinct,
                                            m_limit, m_skip, m_sort, <<"u", "n", "s", "u", "p", "p", "o", "r", "t", "e", "d">>}
      [] pc = "loop" /\ idx > Len(operations) -> idx = Len(operations) + 1
      [] OTHER -> pc \in {"parse", "save", "done"}

\* the state of a call: a bounded number of steps is left, one of them can be
\* taken, the tokenizer's loop has shortened its text at every iteration, no
\* operation was called twice, and the outcome is there when the call is
\* over and only then
Terminating ==
    /\ Rank \in 0..(Len(query) + 3)
    /\ StepOpen
    /\ (pc = "loop" /\ idx = 1 /\ operations # <<>>)
         => Shortens(MatchHead(Strip(query)).first.remaining)
    /\ \A m, n \in DOMAIN calls : m < n => calls[m].pos < calls[n].pos
    /\ IF pc = "done" THEN Returned ELSE outcome = NoOutcome

\* a step of a call: it leaves fewer steps, a visit moves on to the next
\* operation, and an outcome once given stays
TerminatingStep ==
    /\ Rank' < Rank
    /\ (pc = "loop" /\ idx <= Len(operations)) => idx' = idx + 1
    /\ pc = "loop" => pc' \in {"loop", "save", "done"}
    /\ outcome # NoOutcome => outcome' = outcome

\* C27: execute_query terminates with exactly one outcome: the tokenizer's
\* loop shortens the remaining text at every iteration, the executor visits
\* each operation at most once, the sanitizer returns for every result tree,
\* and every step of the call leaves strictly fewer steps to take.
C27_Terminates == []Terminating /\ [][TerminatingStep]_vars

\* a chain of three operations of which each was visited, and the documents
\* fetched were sanitized and returned
C27_Witness ==
    /\ pc = "done"
    /\ Len(operations) = 3
    /\ Len(calls) = 4
    /\ outcome.status = "success"
    /\ outcome.data # result
    /\ Rank = 0
====
